---- MODULE Spec2Model ----
(***************************************************************************)
(* Model of the ABEcrypto healthcare application:                          *)
(*   - the policy evaluators, policy builders and hybrid encrypt/decrypt   *)
(*     of utils/encryption.js and of the CP-ABE module (unnamed/part_006), *)
(*   - the access-request ledger of the Healthcare contract                *)
(*     (unnamed/part_008).                                                 *)
(*                                                                         *)
(* JavaScript values are encoded as sequences of strings so that values of *)
(* different JavaScript types can be compared without a type error:        *)
(*   <<"undefined">>, <<"null">>, <<"num","7">>, <<"str","doctor">>,       *)
(*   <<"bool","true">>, and an array <<"list", tag1, payload1, ...>>.      *)
(* A JavaScript string's characters (a "text") are a sequence of non-empty *)
(* chunks; the empty string is << >>.                                      *)
(*                                                                         *)
(* Cryptography is symbolic: a ciphertext records the key and the text it  *)
(* was made from, and decrypting under any other key (or decrypting a      *)
(* corrupted ciphertext) yields one of the outcomes CryptoJS can produce   *)
(* for random bytes: a "Malformed UTF-8 data" exception, the empty string, *)
(* or an unintelligible string.                                            *)
(***************************************************************************)
EXTENDS Integers, Sequences, FiniteSets, TLC

VARIABLES
    \* ---- Healthcare contract storage (unnamed/part_008) ----
    admin,                 \* address payable public admin
    userList,              \* addresses that have a chat account (CREATE_ACCOUNT)
    doctorCount,           \* uint public doctorCount
    patientCount,          \* uint public patientCount
    doctorApproved,        \* doctors[id].isApproved
    doctorAddressToId,     \* mapping(address => uint)
    patientAddressToId,    \* mapping(address => uint)
    doctorIdToAddress,     \* mapping(uint => address)
    patientIdToAddress,    \* mapping(uint => address)
    patientMedicalRecords, \* mapping(uint => EncryptedMedicalRecord[])
    patientAccessRequests, \* mapping(uint => AccessRequest[])
    doctorRecordAccess,    \* mapping(uint => mapping(uint => bool))
    accessRequestCounter,  \* uint256 public accessRequestCounter
    registeredDoctors,     \* mapping(address => bool)
    registeredPatients,    \* mapping(address => bool)
    notifications,         \* mapping(address => Notification[]): the array lengths
    lastTx,                \* the last transaction that was mined without reverting
    \* ---- client-side encryption (utils/encryption.js, unnamed/part_006) ----
    pkg,                   \* the encrypted package at hand
    src,                   \* what was encrypted into pkg: module, data, policy
    out,                   \* outcome of the last decrypt call
    \* ---- policy builder / evaluator runs ----
    built,                 \* the last createMedicalRecordPolicy call and its result
    verdict,               \* the last evaluation: attributes and both evaluators' decisions
    \* ---- React component state (components/, unnamed/part_002) ----
    ui                     \* what the open screen holds from its last load

ledgerVars == <<admin, userList, doctorCount, patientCount, doctorApproved,
                doctorAddressToId, patientAddressToId, doctorIdToAddress,
                patientIdToAddress, patientMedicalRecords, patientAccessRequests,
                doctorRecordAccess, accessRequestCounter, registeredDoctors,
                registeredPatients, notifications, lastTx>>
codecVars == <<pkg, src, out>>
\* state of the client outside the codec: builder runs and the open screen
policyVars == <<built, verdict, ui>>
vars == <<ledgerVars, codecVars, policyVars>>

----------------------------------------------------------------------------
(* JavaScript values *)

Undefined == <<"undefined">>
Null == <<"null">>
Num(n) == <<"num", ToString(n)>>
Str(s) == <<"str", s>>
Bool(b) == <<"bool", IF b THEN "true" ELSE "false">>
List(items) == <<"list">> \o items     \* items: concatenation of scalars

IsArray(v) == Len(v) > 0 /\ v[1] = "list"      \* Array.isArray
IsNum(v) == Len(v) = 2 /\ v[1] = "num"
IsStr(v) == Len(v) = 2 /\ v[1] = "str"

\* The largest number the model's policies and attributes mention.
MaxNum == 9

NumVal(v) == CHOOSE n \in 0..MaxNum : ToString(n) = v[2]

\* JavaScript truthiness of a scalar (if (x) ...).
Truthy(v) ==
    CASE v = Undefined -> FALSE
      [] v = Null -> FALSE
      [] IsNum(v) -> v # Num(0)
      [] IsStr(v) -> v[2] # ""
      [] v[1] = "bool" -> v[2] = "true"
      [] OTHER -> TRUE

\* Array.prototype.includes on an array of primitives.
Includes(list, x) ==
    \E i \in 2..Len(list) :
        /\ i % 2 = 0
        /\ i + 1 <= Len(list)
        /\ <<list[i], list[i + 1]>> = x

ListLength(list) == (Len(list) - 1) \div 2
ListItem(list, i) == <<list[2 * i], list[2 * i + 1]>>

\* String.prototype.toLowerCase over the strings the model uses.
ToLowerCase(s) ==
    CASE s = "Cardiology" -> "cardiology"
      [] s = "Neurology" -> "neurology"
      [] s = "Doctor" -> "doctor"
      [] s = "Patient" -> "patient"
      [] s = "Admin" -> "admin"
      [] s = "StMary" -> "stmary"
      [] OTHER -> s

\* Number(x) for the values the code passes: numbers stay, null is 0.
ToNumber(v) ==
    CASE IsNum(v) -> v
      [] v = Null -> Num(0)
      [] v[1] = "bool" -> IF v[2] = "true" THEN Num(1) ELSE Num(0)
      [] OTHER -> <<"NaN">>

\* strict equality of primitives; two distinct arrays are never ===
StrictEq(a, b) == a = b /\ ~IsArray(a)

\* relational comparison after ToNumber; NaN compares false
Rel(op, a, b) ==
    LET x == ToNumber(a)
        y == ToNumber(b)
    IN  /\ IsNum(x)
        /\ IsNum(y)
        /\ CASE op = ">" -> NumVal(x) > NumVal(y)
             [] op = "<" -> NumVal(x) < NumVal(y)
             [] op = ">=" -> NumVal(x) >= NumVal(y)
             [] op = "<=" -> NumVal(x) <= NumVal(y)

----------------------------------------------------------------------------
(* Attribute sets and policy nodes *)

AttrNames == {"role", "patientId", "doctorId", "speciality", "specialty",
              "hospital", "emergency"}

\* userAttributes[attribute]: a missing property reads as undefined
Attr(attrs, name) == IF name \in DOMAIN attrs THEN attrs[name] ELSE Undefined

Leaf(a, op, v) == [attribute |-> a, operator |-> op, value |-> v]
Node(t, cs) == [type |-> t, conditions |-> cs]

IsComposite(n) == "conditions" \in DOMAIN n
NodeType(n) == IF "type" \in DOMAIN n THEN n.type ELSE "undefined"
NodeOperator(n) == IF "operator" \in DOMAIN n THEN n.operator ELSE "undefined"
NodeAttribute(n) == IF "attribute" \in DOMAIN n THEN n.attribute ELSE "undefined"
NodeValue(n) == IF "value" \in DOMAIN n THEN n.value ELSE Undefined

\* a null policy (JavaScript null in the package's policy field)
NullPolicy == [isNull |-> TRUE]
IsNullPolicy(p) == "isNull" \in DOMAIN p

----------------------------------------------------------------------------
(* utils/encryption.js: checkCondition, checkPolicySatisfaction *)

checkCondition(condition, userAttributes) ==
    LET attribute == NodeAttribute(condition)
        operator == NodeOperator(condition)
        value == NodeValue(condition)
        userValue == Attr(userAttributes, attribute)
    IN  CASE operator = "===" -> StrictEq(userValue, value)
          [] operator = "!==" -> ~StrictEq(userValue, value)
          [] operator = "includes" -> IsArray(userValue) /\ Includes(userValue, value)
          [] operator = "in" -> IsArray(value) /\ Includes(value, userValue)
          [] OTHER -> FALSE

checkPolicySatisfaction(policy, userAttributes) ==
    IF IsNullPolicy(policy) THEN FALSE
    ELSE CASE NodeType(policy) = "AND" ->
                \A i \in 1..Len(policy.conditions) :
                    checkCondition(policy.conditions[i], userAttributes)
           [] NodeType(policy) = "OR" ->
                \E i \in 1..Len(policy.conditions) :
                    checkCondition(policy.conditions[i], userAttributes)
           [] NodeType(policy) = "SIMPLE" -> checkCondition(policy, userAttributes)
           [] OTHER -> FALSE

----------------------------------------------------------------------------
(* CP-ABE module (unnamed/part_006): evaluatePolicy *)

RECURSIVE evaluateCondition(_, _)
evaluateCondition(condition, userAttributes) ==
    IF NodeType(condition) \in {"AND", "OR"}
    THEN IF NodeType(condition) = "AND"
         THEN \A i \in 1..Len(condition.conditions) :
                  evaluateCondition(condition.conditions[i], userAttributes)
         ELSE \E i \in 1..Len(condition.conditions) :
                  evaluateCondition(condition.conditions[i], userAttributes)
    ELSE LET operator == NodeOperator(condition)
             value == NodeValue(condition)
             userValue == Attr(userAttributes, NodeAttribute(condition))
         IN  CASE operator = "===" -> StrictEq(userValue, value)
               [] operator = "!==" -> ~StrictEq(userValue, value)
               [] operator \in {">", "<", ">=", "<="} -> Rel(operator, userValue, value)
               [] operator = "includes" -> IsArray(userValue) /\ Includes(userValue, value)
               [] OTHER -> FALSE

evaluatePolicy(policy, userAttributes) ==
    IF IsNullPolicy(policy) \/ ~IsComposite(policy) THEN FALSE
    ELSE IF NodeType(policy) = "AND"
         THEN \A i \in 1..Len(policy.conditions) :
                  evaluateCondition(policy.conditions[i], userAttributes)
         ELSE \E i \in 1..Len(policy.conditions) :
                  evaluateCondition(policy.conditions[i], userAttributes)

----------------------------------------------------------------------------
(* Policy builders *)

\* utils/encryption.js createMedicalRecordPolicy(patientId, options):
\* every condition is pushed onto one flat list, returned as a single OR.
createMedicalRecordPolicyUtil(patientId, options) ==
    LET own == <<Leaf("role", "===", Str("patient")),
                 Leaf("patientId", "===", patientId)>>
        author == IF Truthy(options.doctorId)
                  THEN <<Leaf("role", "===", Str("doctor")),
                         Leaf("doctorId", "===", options.doctorId)>>
                  ELSE << >>
        spec == IF Truthy(options.doctorSpeciality)
                THEN <<Leaf("role", "===", Str("doctor")),
                       Leaf("speciality", "===", options.doctorSpeciality)>>
                ELSE << >>
        approved == IF ListLength(options.approvedDoctorIds) > 0
                    THEN <<Leaf("role", "===", Str("doctor")),
                           Leaf("doctorId", "in", options.approvedDoctorIds)>>
                    ELSE << >>
        adm == IF options.allowAdmin
               THEN <<Leaf("role", "===", Str("admin"))>>
               ELSE << >>
    IN  Node("OR", own \o author \o spec \o approved \o adm)

\* CP-ABE module createAdvancedPolicy(conditions, operator)
createAdvancedPolicy(conditions, operator, now) ==
    [type |-> operator, conditions |-> conditions, timestamp |-> now, version |-> "1.0"]

\* variant: the owner clause is left out once specific doctors are listed
createMedicalRecordPolicyCpabe_OwnerDropped(o, now) ==
    LET own == IF o.allowPatient /\ Truthy(o.patientId) /\ ListLength(o.doctorIds) = 0
               THEN <<Node("AND", <<Leaf("role", "===", Str("patient")),
                                    Leaf("patientId", "===", ToNumber(o.patientId))>>)>>
               ELSE << >>
        docs == [i \in 1..ListLength(o.doctorIds) |->
                    Node("AND", <<Leaf("role", "===", Str("doctor")),
                                  Leaf("doctorId", "===", ToNumber(ListItem(o.doctorIds, i)))>>)]
        adm == IF o.allowAdmin
               THEN <<Leaf("role", "===", Str("admin"))>>
               ELSE << >>
    IN  createAdvancedPolicy(own \o docs \o adm, "OR", now)

\* CP-ABE module createMedicalRecordPolicy({...}): one AND clause per entry.
createMedicalRecordPolicyCpabe(o, now) ==
    LET own == IF o.allowPatient /\ Truthy(o.patientId)
               THEN <<Node("AND", <<Leaf("role", "===", Str("patient")),
                                    Leaf("patientId", "===", ToNumber(o.patientId))>>)>>
               ELSE << >>
        docs == [i \in 1..ListLength(o.doctorIds) |->
                    Node("AND", <<Leaf("role", "===", Str("doctor")),
                                  Leaf("doctorId", "===", ToNumber(ListItem(o.doctorIds, i)))>>)]
        specs == [i \in 1..ListLength(o.specialties) |->
                    Node("AND", <<Leaf("role", "===", Str("doctor")),
                                  Leaf("specialty", "===",
                                       Str(ToLowerCase(ListItem(o.specialties, i)[2])))>>)]
        hosps == [i \in 1..ListLength(o.hospitals) |->
                    Node("AND", <<Leaf("role", "===", Str("doctor")),
                                  Leaf("hospital", "===",
                                       Str(ToLowerCase(ListItem(o.hospitals, i)[2])))>>)]
        adm == IF o.allowAdmin
               THEN <<Leaf("role", "===", Str("admin"))>>
               ELSE << >>
        emerg == IF o.emergencyAccess
                 THEN <<Node("AND", <<Leaf("role", "===", Str("doctor")),
                                      Leaf("emergency", "===", Bool(TRUE))>>)>>
                 ELSE << >>
    IN  createAdvancedPolicy(own \o docs \o specs \o hosps \o adm \o emerg, "OR", now)

----------------------------------------------------------------------------
(* JSON *)

\* the characters of a string value
TextOf(s) == IF s = "" THEN << >> ELSE <<s>>

\* JSON.stringify of a primitive or an array of primitives, as text
RECURSIVE JsonOfValue(_)
JsonOfValue(v) ==
    CASE IsStr(v) -> <<"\"">> \o TextOf(v[2]) \o <<"\"">>
      [] IsNum(v) -> <<v[2]>>
      [] v = Null -> <<"null">>
      [] IsArray(v) -> <<"[">> \o Tail(v) \o <<"]">>
      [] OTHER -> <<v[2]>>

\* JSON.parse of a text produced by JsonOfValue; anything else is a SyntaxError
JsonIsValid(t) ==
    \/ Len(t) >= 2 /\ t[1] = "\"" /\ t[Len(t)] = "\"" /\ Len(t) <= 3
    \/ Len(t) = 1 /\ \E n \in 0..MaxNum : t[1] = ToString(n)
    \/ t = <<"null">>

JsonParse(t) ==
    CASE t[1] = "\"" -> Str(IF Len(t) = 3 THEN t[2] ELSE "")
      [] t = <<"null">> -> Null
      [] OTHER -> <<"num", t[1]>>

\* JSON.stringify(policy): keys in the order the object literals list them
RECURSIVE JsonOfPolicy(_)
JsonOfPolicy(n) ==
    IF IsNullPolicy(n) THEN <<"null">>
    ELSE IF IsComposite(n)
    THEN LET RECURSIVE Kids(_)
             Kids(i) == IF i > Len(n.conditions) THEN << >>
                        ELSE JsonOfPolicy(n.conditions[i]) \o Kids(i + 1)
         IN  <<"{", "type", NodeType(n), "conditions", "[">> \o Kids(1) \o <<"]">>
             \o (IF "timestamp" \in DOMAIN n
                 THEN <<"timestamp", ToString(n.timestamp), "version", n.version>>
                 ELSE << >>)
             \o <<"}">>
    ELSE (IF "type" \in DOMAIN n THEN <<"{", "type", n.type>> ELSE <<"{">>)
         \o <<"attribute", n.attribute, "operator", n.operator, "value">>
         \o JsonOfValue(n.value) \o <<"}">>

----------------------------------------------------------------------------
(* Symbolic CryptoJS *)

\* number of distinct values the random generator can return in the model
MaxKeys == 2

\* CryptoJS.lib.WordArray.random(...).toString(): hex strings
RandomHex == {"r" \o ToString(i) : i \in 1..MaxKeys}

\* A ciphertext string: the key and text it was made from, the IV written in
\* front of it and the number of ':'-separated parts of the string.
Cipher(key, text, iv, parts) == [key |-> key, text |-> text, iv |-> iv, parts |-> parts]

\* a string that is no ciphertext of any key
CorruptCipher == Cipher(<<"?">>, << >>, "", 1)

\* What decrypted.toString(CryptoJS.enc.Utf8) does when the bytes are not the
\* ones that were encrypted: it throws, or returns "" or an arbitrary string.
Garbage == {"malformed", "empty", "junk"}

JunkText == <<"~junk~">>

\* CryptoJS.AES.decrypt(ct, key) followed by toString(Utf8); g is the outcome
\* drawn for the case that key is not the key ct was made with.
AesDecrypt(ct, key, g) ==
    IF ct.key = key THEN [text |-> ct.text, thrown |-> FALSE]
    ELSE CASE g = "malformed" -> [text |-> <<"Malformed UTF-8 data">>, thrown |-> TRUE]
           [] g = "empty" -> [text |-> << >>, thrown |-> FALSE]
           [] OTHER -> [text |-> JunkText, thrown |-> FALSE]

\* CryptoJS.SHA256(x).toString()
SHA256(x) == <<"sha256(">> \o x \o <<")">>

\* outcome of a call: a returned value or a thrown Error with its message,
\* and the operations performed on the way
Return(v, steps) == [value |-> v, steps |-> steps, ok |-> TRUE, err |-> << >>]
Throw(msg, steps) == [value |-> Undefined, steps |-> steps, ok |-> FALSE, err |-> msg]

Blob(text) == <<"blob">> \o text
IsBlob(v) == Len(v) > 0 /\ v[1] = "blob"

----------------------------------------------------------------------------
(* utils/encryption.js: ABEEncryption *)

deriveMasterKey == SHA256(<<"healthcare-abe-master-seed-2024">>)

encryptWithAES(data, aesKey) == Cipher(aesKey, JsonOfValue(data), "", 1)

decryptWithAES(encryptedData, aesKey, g) ==
    LET d == AesDecrypt(encryptedData, aesKey, g)
        steps == <<"AES.decrypt(data)">>
    IN  IF d.thrown \/ d.text = << >> \/ ~JsonIsValid(d.text)
        THEN Throw(<<"Failed to decrypt data with AES">>, steps)
        ELSE Return(JsonParse(d.text), steps)

encryptAESKeyWithABEUtil(aesKey, accessPolicy) ==
    [policy |-> accessPolicy,
     encryptedKey |-> Cipher(SHA256(deriveMasterKey \o JsonOfPolicy(accessPolicy)), aesKey, "", 1),
     algorithm |-> "ABE-AES-Hybrid"]

\* variant: the wrap key is derived and the unwrap attempted before the policy check
decryptAESKeyWithABEUtil_UnwrapFirst(encryptedKeyData, userAttributes, g) ==
    LET decryptionKey == SHA256(deriveMasterKey \o JsonOfPolicy(encryptedKeyData.policy))
        d == AesDecrypt(encryptedKeyData.encryptedKey, decryptionKey, g)
        steps == <<"SHA256(masterKey+policy)", "AES.decrypt(encryptedKey)",
                   "checkPolicySatisfaction">>
    IN  IF d.thrown
        THEN Throw(<<"Failed to decrypt AES key with ABE: ">> \o d.text,
                   <<"SHA256(masterKey+policy)", "AES.decrypt(encryptedKey)">>)
        ELSE IF ~checkPolicySatisfaction(encryptedKeyData.policy, userAttributes)
        THEN Throw(<<"Failed to decrypt AES key with ABE: ",
                     "User attributes do not satisfy access policy">>, steps)
        ELSE Return(d.text, steps)

decryptAESKeyWithABEUtil(encryptedKeyData, userAttributes, g) ==
    IF ~checkPolicySatisfaction(encryptedKeyData.policy, userAttributes)
    THEN Throw(<<"Failed to decrypt AES key with ABE: ",
                 "User attributes do not satisfy access policy">>,
               <<"checkPolicySatisfaction">>)
    ELSE LET decryptionKey == SHA256(deriveMasterKey \o JsonOfPolicy(encryptedKeyData.policy))
             d == AesDecrypt(encryptedKeyData.encryptedKey, decryptionKey, g)
             steps == <<"checkPolicySatisfaction", "SHA256(masterKey+policy)",
                        "AES.decrypt(encryptedKey)">>
         IN  IF d.thrown
             THEN Throw(<<"Failed to decrypt AES key with ABE: ">> \o d.text, steps)
             ELSE Return(d.text, steps)

encrypt(data, accessPolicy, aesKey) ==
    LET encryptedKeyData == encryptAESKeyWithABEUtil(<<aesKey>>, accessPolicy)
    IN  [policy |-> encryptedKeyData.policy,
         encryptedData |-> encryptWithAES(data, <<aesKey>>),
         encryptedKey |-> encryptedKeyData.encryptedKey,
         algorithm |-> encryptedKeyData.algorithm,
         module |-> "util"]

decrypt(encryptedPackage, userAttributes, g1, g2) ==
    LET k == decryptAESKeyWithABEUtil(
                 [policy |-> encryptedPackage.policy,
                  encryptedKey |-> encryptedPackage.encryptedKey], userAttributes, g1)
    IN  IF ~k.ok
        THEN Throw(<<"Failed to decrypt data: ">> \o k.err, k.steps)
        ELSE LET d == decryptWithAES(encryptedPackage.encryptedData, k.value, g2)
             IN  IF ~d.ok
                 THEN Throw(<<"Failed to decrypt data: ">> \o d.err, k.steps \o d.steps)
                 ELSE Return(d.value, k.steps \o d.steps)

----------------------------------------------------------------------------
(* CP-ABE module (unnamed/part_006): ABEEncryption *)

masterKey == <<"default-master-key-change-in-production">>

encryptWithAESGCM(data, aesKey, iv) ==
    LET plaintext == CASE IsBlob(data) -> Tail(data)
                       [] IsStr(data) -> TextOf(data[2])
                       [] OTHER -> JsonOfValue(data)
    IN  Cipher(<<"utf8">> \o aesKey, plaintext, iv, 2)

decryptWithAESGCM(encryptedData, aesKey, returnAsBlob, g) ==
    IF encryptedData.parts # 2
    THEN Throw(<<"Failed to decrypt data: ", "Invalid encrypted data format">>, << >>)
    ELSE LET d == AesDecrypt(encryptedData, <<"utf8">> \o aesKey, g)
             steps == <<"AES.decrypt(data)">>
         IN  IF d.thrown
             THEN Throw(<<"Failed to decrypt data: ">> \o d.text, steps)
             ELSE IF d.text = << >>
             THEN Throw(<<"Failed to decrypt data: ",
                          "Decryption failed - invalid key or corrupted data">>, steps)
             ELSE Return(IF returnAsBlob THEN Blob(d.text) ELSE d.text, steps)

encryptAESKeyWithABE(aesKey, policy) ==
    [policy |-> policy,
     encryptedKey |-> Cipher(masterKey, aesKey, "", 1),
     algorithm |-> "CP-ABE-Simulated"]

\* variant: the key is unwrapped without consulting the policy
decryptAESKeyWithABE_IgnorePolicy(encryptedPackage, userAttributes, g) ==
    LET d == AesDecrypt(encryptedPackage.encryptedKey, masterKey, g)
        steps == <<"AES.decrypt(encryptedKey)">>
    IN  IF d.thrown \/ d.text = << >>
        THEN Return(Null, steps)
        ELSE Return(d.text, steps)

\* returns the AES key, or null (value Null) on every failure
decryptAESKeyWithABE(encryptedPackage, userAttributes, g) ==
    IF ~evaluatePolicy(encryptedPackage.policy, userAttributes)
    THEN Return(Null, <<"evaluatePolicy">>)
    ELSE LET d == AesDecrypt(encryptedPackage.encryptedKey, masterKey, g)
             steps == <<"evaluatePolicy", "AES.decrypt(encryptedKey)">>
         IN  IF d.thrown \/ d.text = << >>
             THEN Return(Null, steps)
             ELSE Return(d.text, steps)

encryptMedicalRecord(medicalData, policy, aesKey, iv) ==
    LET encryptedKeyPackage == encryptAESKeyWithABE(<<aesKey>>, policy)
    IN  [policy |-> encryptedKeyPackage.policy,
         encryptedData |-> encryptWithAESGCM(medicalData, <<aesKey>>, iv),
         encryptedKey |-> encryptedKeyPackage.encryptedKey,
         algorithm |-> "AES-256-GCM + CP-ABE",
         module |-> "cpabe"]

decryptMedicalRecord(encryptedPackage, userAttributes, g1, g2) ==
    LET k == decryptAESKeyWithABE(
                 [policy |-> encryptedPackage.policy,
                  encryptedKey |-> encryptedPackage.encryptedKey], userAttributes, g1)
    IN  IF k.value = Null
        THEN Throw(<<"Failed to decrypt medical record: ",
                     "Access denied: Your attributes do not satisfy the access policy">>,
                   k.steps)
        ELSE LET d == decryptWithAESGCM(encryptedPackage.encryptedData, k.value, TRUE, g2)
             IN  IF ~d.ok
                 THEN Throw(<<"Failed to decrypt medical record: ">> \o d.err,
                            k.steps \o d.steps)
                 ELSE Return(d.value, k.steps \o d.steps)

----------------------------------------------------------------------------
(* Inputs of the client-side runs *)

None == [module |-> "none"]

\* the evaluator each module's decrypt consults
Satisfies(module, policy, attrs) ==
    IF module = "util" THEN checkPolicySatisfaction(policy, attrs)
    ELSE evaluatePolicy(policy, attrs)

PatientAttrs(id) == [patientId |-> id, role |-> Str("patient")]
DoctorAttrs(id, speciality) ==
    [doctorId |-> id,
     role |-> Str("doctor"),
     speciality |-> speciality,
     specialty |-> speciality]
AdminAttrs == [role |-> Str("admin")]

UtilOptions(doctorId, doctorSpeciality, allowAdmin, approvedDoctorIds) ==
    [doctorId |-> doctorId,
     doctorSpeciality |-> doctorSpeciality,
     approvedDoctorIds |-> approvedDoctorIds,
     allowAdmin |-> allowAdmin]

CpabeOptions(patientId, doctorIds, specialties, hospitals, allowAdmin, allowPatient, emergencyAccess) ==
    [patientId |-> patientId,
     allowAdmin |-> allowAdmin,
     allowPatient |-> allowPatient,
     doctorIds |-> doctorIds,
     specialties |-> specialties,
     hospitals |-> hospitals,
     emergencyAccess |-> emergencyAccess]

\* Scenario A of the specification, built by either module
ScenarioAUtil ==
    createMedicalRecordPolicyUtil(Num(7),
        UtilOptions(Num(3), Str("cardiology"), TRUE, List(<< >>)))
ScenarioACpabe ==
    createMedicalRecordPolicyCpabe(
        CpabeOptions(Num(7), List(Num(3)), List(Str("Cardiology")), List(<< >>),
                     TRUE, TRUE, FALSE), 1)

\* a policy that only doctor 9 satisfies, in a shape both modules evaluate
OnlyDoctor9Util == Node("AND", <<Leaf("role", "===", Str("doctor")),
                                Leaf("doctorId", "===", Num(9))>>)

CodecPolicies == {ScenarioAUtil, ScenarioACpabe, OnlyDoctor9Util, NullPolicy}

CodecAttrs == {PatientAttrs(Num(7)), PatientAttrs(Num(8)),
               DoctorAttrs(Num(3), Str("neurology")),
               DoctorAttrs(Num(9), Str("cardiology")),
               DoctorAttrs(Num(9), Str("neurology")),
               AdminAttrs}

\* record contents handed to encrypt
CodecData == {Str(""), Str("bp 120/80"), Num(7)}
CpabeData == CodecData \cup {Blob(<<"scan">>), Blob(<< >>)}

\* the text a decrypt of the CP-ABE module is expected to carry for a data
PlainText(data) ==
    CASE IsBlob(data) -> Tail(data)
      [] IsStr(data) -> TextOf(data[2])
      [] OTHER -> JsonOfValue(data)

\* does a decrypt outcome carry the data that was encrypted?
ReturnsData(module, result, data) ==
    /\ result.ok
    /\ IF module = "util" THEN result.value = data
       ELSE result.value = Blob(PlainText(data))

\* an error whose message is the access-denied message of either module
IsAccessDenied(err) ==
    /\ Len(err) > 0
    /\ err[Len(err)] \in {"User attributes do not satisfy access policy",
                          "Access denied: Your attributes do not satisfy the access policy"}

----------------------------------------------------------------------------
(* Client-side actions: encrypt, tamper with the stored package, decrypt *)

EncryptUtil(data, policy, k) ==
    /\ pkg' = encrypt(data, policy, k)
    /\ src' = [pkg |-> pkg', policy |-> policy, data |-> data, module |-> "util"]
    /\ out' = None
    /\ UNCHANGED <<ledgerVars, policyVars>>

EncryptCpabe(data, policy, k, iv) ==
    /\ pkg' = encryptMedicalRecord(data, policy, k, iv)
    /\ src' = [pkg |-> pkg', policy |-> policy, data |-> data, module |-> "cpabe"]
    /\ out' = None
    /\ UNCHANGED <<ledgerVars, policyVars>>

\* the stored package's policy field is replaced (the policy is stored in clear)
ReplacePolicy(policy) ==
    /\ pkg.module # "none"
    /\ policy # pkg.policy
    /\ pkg' = [pkg EXCEPT !.policy = policy]
    /\ out' = None
    /\ UNCHANGED <<src, ledgerVars, policyVars>>

\* the stored wrapped key is damaged
CorruptKey ==
    /\ pkg.module # "none"
    /\ pkg.encryptedKey # CorruptCipher
    /\ pkg' = [pkg EXCEPT !.encryptedKey = CorruptCipher]
    /\ out' = None
    /\ UNCHANGED <<src, ledgerVars, policyVars>>

\* the stored ciphertext is damaged (its framing is kept)
CorruptData ==
    /\ pkg.module # "none"
    /\ pkg.encryptedData.key # <<"?">>
    /\ pkg' = [pkg EXCEPT !.encryptedData.key = <<"?">>]
    /\ out' = None
    /\ UNCHANGED <<src, ledgerVars, policyVars>>

DecryptUtil(attrs, g1, g2) ==
    /\ pkg.module = "util"
    /\ out' = [attrs |-> attrs, module |-> "util", result |-> decrypt(pkg, attrs, g1, g2)]
    /\ UNCHANGED <<pkg, src, ledgerVars, policyVars>>

DecryptCpabe(attrs, g1, g2) ==
    /\ pkg.module = "cpabe"
    /\ out' = [attrs |-> attrs,
               module |-> "cpabe",
               result |-> decryptMedicalRecord(pkg, attrs, g1, g2)]
    /\ UNCHANGED <<pkg, src, ledgerVars, policyVars>>

----------------------------------------------------------------------------
(* Policy builder runs: build a medical-record policy, evaluate attributes *)

BuildUtil(patientId, options) ==
    /\ built' = [policy |-> createMedicalRecordPolicyUtil(patientId, options),
                 patientId |-> patientId,
                 options |-> options,
                 module |-> "util"]
    /\ verdict' = None
    /\ UNCHANGED <<ui, ledgerVars, codecVars>>

BuildCpabe(options, now) ==
    /\ built' = [policy |-> createMedicalRecordPolicyCpabe(options, now),
                 patientId |-> options.patientId,
                 options |-> options,
                 module |-> "cpabe"]
    /\ verdict' = None
    /\ UNCHANGED <<ui, ledgerVars, codecVars>>

\* both evaluators are run on the built policy; sat is the decision of the
\* evaluator that belongs to the module that built it
Evaluate(attrs) ==
    /\ built.module # "none"
    /\ verdict' = [attrs |-> attrs,
                   module |-> built.module,
                   util |-> checkPolicySatisfaction(built.policy, attrs),
                   cpabe |-> evaluatePolicy(built.policy, attrs),
                   sat |-> Satisfies(built.module, built.policy, attrs)]
    /\ UNCHANGED <<built, ui, ledgerVars, codecVars>>

\* inputs
PolicyPatientIds == {Num(7), Num(8)}
OptDoctorId == {Null, Num(3)}
OptSpeciality == {Null, Str("cardiology")}
OptApproved == {List(<< >>), List(Num(9))}
OptDoctorIds == {List(<< >>), List(Num(3))}
OptSpecialties == {List(<< >>), List(Str("Cardiology"))}
OptHospitals == {List(<< >>), List(Str("StMary"))}

PolicyAttrs ==
    {PatientAttrs(p) : p \in {Undefined, Num(7), Num(8)}}
    \cup {[patientId |-> Num(8), doctorId |-> Num(3), role |-> Str("patient")]}
    \cup {[doctorId |-> d, role |-> Str("doctor"), speciality |-> sp]
            : d \in {Undefined, Num(3), Num(9)},
              sp \in {Undefined, Str("cardiology"), Str("neurology")}}
    \cup {[doctorId |-> d,
           role |-> Str("doctor"),
           speciality |-> sp,
           emergency |-> Bool(TRUE)]
            : d \in {Num(3), Num(9)}, sp \in {Str("neurology")}}
    \cup {[doctorId |-> Num(9),
           role |-> Str("doctor"),
           speciality |-> Str("neurology"),
           specialty |-> sp,
           hospital |-> h]
            : sp \in {Str("cardiology"), Str("neurology")}, h \in {Str("stmary"), Str("other")}}
    \cup {AdminAttrs, [role |-> Str("nurse")]}

----------------------------------------------------------------------------
(* Healthcare contract (unnamed/part_008) *)

\* Bounds of the ledger model
MaxAddr == 3            \* account addresses 1..MaxAddr; 0 is the zero address
MaxDoctors == 2         \* ADD_DOCTOR is not taken beyond this doctorCount
MaxPatients == 2        \* ADD_PATIENTS is not taken beyond this patientCount
MaxRecords == 2         \* records uploaded per patient
MaxLedgerRecords == 1   \* records per patient in the runs of the whole ledger
MaxRequests == 2        \* requestRecordAccess is not taken beyond this counter
MaxNotifications == 6   \* notifications kept per address

Addresses == 1..MaxAddr
DoctorIds == 0..MaxDoctors
PatientIds == 0..MaxPatients

\* storage as the constructor leaves it: admin is the deployer, all else zero
storageVars == <<admin, userList, doctorCount, patientCount, doctorApproved,
                 doctorAddressToId, patientAddressToId, doctorIdToAddress,
                 patientIdToAddress, patientMedicalRecords, patientAccessRequests,
                 doctorRecordAccess, accessRequestCounter, registeredDoctors,
                 registeredPatients, notifications, lastTx>>

\* a mined transaction: the function called, msg.sender and the arguments
Tx(fn, sender, args) == [fn |-> fn, sender |-> sender, args |-> args]

constructor ==
    /\ admin = 1
    /\ userList = {}
    /\ doctorCount = 0
    /\ patientCount = 0
    /\ doctorApproved = [d \in DoctorIds |-> FALSE]
    /\ doctorAddressToId = [a \in 0..MaxAddr |-> 0]
    /\ patientAddressToId = [a \in 0..MaxAddr |-> 0]
    /\ doctorIdToAddress = [d \in DoctorIds |-> 0]
    /\ patientIdToAddress = [p \in PatientIds |-> 0]
    /\ patientMedicalRecords = [p \in PatientIds |-> << >>]
    /\ patientAccessRequests = [p \in PatientIds |-> << >>]
    /\ doctorRecordAccess = [p \in PatientIds |-> [d \in DoctorIds |-> FALSE]]
    /\ accessRequestCounter = 0
    /\ registeredDoctors = [a \in 0..MaxAddr |-> FALSE]
    /\ registeredPatients = [a \in 0..MaxAddr |-> FALSE]
    /\ notifications = [a \in 0..MaxAddr |-> 0]
    /\ lastTx = Tx("constructor", 1, << >>)

\* a transaction that reverts leaves the storage untouched
Revert == UNCHANGED <<storageVars, lastTx>>

\* ADD_NOTIFICATION applied once for each address of the sequence tos
ADD_NOTIFICATION(notifs, tos) ==
    [a \in 0..MaxAddr |-> notifs[a] + Cardinality({i \in 1..Len(tos) : tos[i] = a})]

\* the model stops before any address holds more than MaxNotifications
Room(tos) ==
    \A a \in 0..MaxAddr : ADD_NOTIFICATION(notifications, tos)[a] <= MaxNotifications

CHECK_USER_EXISTS(a) == a \in userList

hasDoctorAccess(_patientId, _doctorId) == doctorRecordAccess[_patientId][_doctorId]

\* array[index] of a Solidity array held as a sequence
At(array, index) == array[index + 1]

EncryptedMedicalRecord(id, patientId, ipfsHash, encryptedAESKey, accessPolicy, uploadedBy) ==
    [patientId |-> patientId,
     accessPolicy |-> accessPolicy,
     id |-> id,
     ipfsHash |-> ipfsHash,
     encryptedAESKey |-> encryptedAESKey,
     uploadedBy |-> uploadedBy,
     isActive |-> TRUE]

AccessRequest(id, recordId, doctorId, patientId, reason) ==
    [patientId |-> patientId,
     doctorId |-> doctorId,
     id |-> id,
     recordId |-> recordId,
     reason |-> reason,
     isPending |-> TRUE,
     isApproved |-> FALSE]

(* Each function is an action; the operator <function>Revert gives the reason  *)
(* of the first require that fails for a call in the current state, "" if none *)
(* fails.  A call that reverts is a step that changes nothing.                 *)

ADD_DOCTORRevert(_address, feeOk) ==
    IF ~feeOk THEN "Incorrect registration fee"
    ELSE IF registeredDoctors[_address] THEN "Doctor is already registered"
    ELSE IF CHECK_USER_EXISTS(_address) THEN "User already exists"
    ELSE ""

ADD_DOCTOR(_address, feeOk) ==
    /\ doctorCount < MaxDoctors
    /\ UNCHANGED <<codecVars, policyVars>>
    /\ IF ADD_DOCTORRevert(_address, feeOk) # "" THEN Revert
       ELSE /\ Room(<<_address, admin>>)
            /\ doctorCount' = doctorCount + 1
            /\ doctorApproved' = [doctorApproved EXCEPT ![doctorCount + 1] = FALSE]
            /\ registeredDoctors' = [registeredDoctors EXCEPT ![_address] = TRUE]
            /\ doctorAddressToId' = [doctorAddressToId EXCEPT ![_address] = doctorCount + 1]
            /\ doctorIdToAddress' = [doctorIdToAddress EXCEPT ![doctorCount + 1] = _address]
            /\ userList' = userList \cup {_address}
            /\ notifications' = ADD_NOTIFICATION(notifications, <<_address, admin>>)
            /\ lastTx' = Tx("ADD_DOCTOR", _address, <<_address>>)
            /\ UNCHANGED <<admin, patientCount, patientAddressToId, patientIdToAddress,
                           patientMedicalRecords, patientAccessRequests,
                           doctorRecordAccess, accessRequestCounter, registeredPatients>>

APPROVE_DOCTOR_STATUSRevert(sender, _doctorId) ==
    IF sender # admin THEN "Only admin can perform this action"
    ELSE IF ~(_doctorId <= doctorCount) THEN "Doctor does not exist"
    ELSE IF doctorApproved[_doctorId] THEN "Doctor is already approved"
    ELSE ""

APPROVE_DOCTOR_STATUS(sender, _doctorId) ==
    /\ UNCHANGED <<codecVars, policyVars>>
    /\ IF APPROVE_DOCTOR_STATUSRevert(sender, _doctorId) # "" THEN Revert
       ELSE /\ Room(<<sender, doctorIdToAddress[_doctorId]>>)
            /\ doctorApproved' = [doctorApproved EXCEPT ![_doctorId] = ~doctorApproved[_doctorId]]
            /\ notifications' = ADD_NOTIFICATION(notifications,
                                                 <<sender, doctorIdToAddress[_doctorId]>>)
            /\ lastTx' = Tx("APPROVE_DOCTOR_STATUS", sender, <<_doctorId>>)
            /\ UNCHANGED <<admin, userList, doctorCount, patientCount, doctorAddressToId,
                           patientAddressToId, doctorIdToAddress, patientIdToAddress,
                           patientMedicalRecords, patientAccessRequests, doctorRecordAccess,
                           accessRequestCounter, registeredDoctors, registeredPatients>>

ADD_PATIENTSRevert(_accountAddress, _doctorAddress, feeOk) ==
    IF ~feeOk THEN "Incorrect registration fee"
    ELSE IF registeredPatients[_accountAddress] THEN "Patient is already registered"
    ELSE IF CHECK_USER_EXISTS(_accountAddress) THEN "User already exists"
    ELSE IF _doctorAddress # _accountAddress /\ ~CHECK_USER_EXISTS(_doctorAddress)
    THEN "User is not registered!"
    ELSE IF _doctorAddress = _accountAddress THEN "Users cannot add themselves as friends"
    ELSE ""

ADD_PATIENTS(_accountAddress, _doctorAddress, feeOk) ==
    /\ patientCount < MaxPatients
    /\ UNCHANGED <<codecVars, policyVars>>
    /\ IF ADD_PATIENTSRevert(_accountAddress, _doctorAddress, feeOk) # "" THEN Revert
       ELSE /\ Room(<<_accountAddress, admin>>)
            /\ patientCount' = patientCount + 1
            /\ registeredPatients' = [registeredPatients EXCEPT ![_accountAddress] = TRUE]
            /\ patientAddressToId' =
                   [patientAddressToId EXCEPT ![_accountAddress] = patientCount + 1]
            /\ patientIdToAddress' =
                   [patientIdToAddress EXCEPT ![patientCount + 1] = _accountAddress]
            /\ userList' = userList \cup {_accountAddress}
            /\ notifications' = ADD_NOTIFICATION(notifications, <<_accountAddress, admin>>)
            /\ lastTx' = Tx("ADD_PATIENTS", _accountAddress, <<_accountAddress>>)
            /\ UNCHANGED <<admin, doctorCount, doctorApproved, doctorAddressToId,
                           doctorIdToAddress, patientMedicalRecords,
                           patientAccessRequests, doctorRecordAccess,
                           accessRequestCounter, registeredDoctors>>

uploadEncryptedMedicalRecordRevert(sender, _patientId, _ipfsHash, _encryptedAESKey) ==
    IF _ipfsHash = "" THEN "IPFS hash required"
    ELSE IF _encryptedAESKey = "" THEN "Encrypted AES key required"
    ELSE IF ~(\/ patientIdToAddress[_patientId] = sender
              \/ /\ doctorApproved[doctorAddressToId[sender]]
                 /\ doctorRecordAccess[_patientId][doctorAddressToId[sender]])
    THEN "Unauthorized: Only patient or approved doctor can upload"
    ELSE ""

uploadEncryptedMedicalRecord(sender, _patientId, _ipfsHash, _encryptedAESKey, _accessPolicy) ==
    /\ Len(patientMedicalRecords[_patientId]) < MaxRecords
    /\ UNCHANGED <<codecVars, policyVars>>
    /\ IF uploadEncryptedMedicalRecordRevert(sender, _patientId, _ipfsHash,
                                             _encryptedAESKey) # ""
       THEN Revert
       ELSE LET recordId == Len(patientMedicalRecords[_patientId])
            IN  /\ Room(<<patientIdToAddress[_patientId]>>)
                /\ patientMedicalRecords' =
                       [patientMedicalRecords EXCEPT ![_patientId] =
                           Append(@, EncryptedMedicalRecord(recordId, _patientId, _ipfsHash,
                                          _encryptedAESKey, _accessPolicy, sender))]
                /\ notifications' =
                       ADD_NOTIFICATION(notifications, <<patientIdToAddress[_patientId]>>)
                /\ lastTx' = Tx("uploadEncryptedMedicalRecord", sender, <<_patientId>>)
                /\ UNCHANGED <<admin, userList, doctorCount, patientCount, doctorApproved,
                               doctorAddressToId, patientAddressToId, doctorIdToAddress,
                               patientIdToAddress, patientAccessRequests, doctorRecordAccess,
                               accessRequestCounter, registeredDoctors, registeredPatients>>

\* variant: the record index is not checked
requestRecordAccessRevert_NoRecordCheck(sender, _patientId, _recordId) ==
    IF ~(doctorAddressToId[sender] > 0) THEN "Not a registered doctor"
    ELSE IF ~doctorApproved[doctorAddressToId[sender]] THEN "Doctor not approved"
    ELSE ""

requestRecordAccessRevert(sender, _patientId, _recordId) ==
    IF ~(doctorAddressToId[sender] > 0) THEN "Not a registered doctor"
    ELSE IF ~doctorApproved[doctorAddressToId[sender]] THEN "Doctor not approved"
    ELSE IF ~(_recordId < Len(patientMedicalRecords[_patientId])) THEN "Record not found"
    ELSE ""

\* variant: a request for the same doctor and record is reopened, not appended
requestRecordAccess_Dedup(sender, _patientId, _recordId, _reason) ==
    /\ accessRequestCounter < MaxRequests
    /\ UNCHANGED <<codecVars, policyVars>>
    /\ IF requestRecordAccessRevert(sender, _patientId, _recordId) # "" THEN Revert
       ELSE LET doctorId == doctorAddressToId[sender]
                tos == <<patientIdToAddress[_patientId], sender>>
                old == patientAccessRequests[_patientId]
                same == {i \in 1..Len(old) :
                            old[i].doctorId = doctorId /\ old[i].recordId = _recordId}
                fresh == AccessRequest(accessRequestCounter + 1, _recordId,
                                       doctorId, _patientId, _reason)
            IN  /\ Room(tos)
                /\ accessRequestCounter' = accessRequestCounter + 1
                /\ patientAccessRequests' =
                       [patientAccessRequests EXCEPT ![_patientId] =
                           IF same = {} THEN Append(old, fresh)
                           ELSE [i \in 1..Len(old) |-> IF i \in same THEN fresh ELSE old[i]]]
                /\ notifications' = ADD_NOTIFICATION(notifications, tos)
                /\ lastTx' = Tx("requestRecordAccess", sender, <<_patientId, _recordId>>)
                /\ UNCHANGED <<admin, userList, doctorCount, patientCount, doctorApproved,
                               doctorAddressToId, patientAddressToId, doctorIdToAddress,
                               patientIdToAddress, patientMedicalRecords, doctorRecordAccess,
                               registeredDoctors, registeredPatients>>

\* variant: the new request is put at the head of the patient's list
requestRecordAccess_Prepends(sender, _patientId, _recordId, _reason) ==
    /\ accessRequestCounter < MaxRequests
    /\ UNCHANGED <<codecVars, policyVars>>
    /\ IF requestRecordAccessRevert(sender, _patientId, _recordId) # "" THEN Revert
       ELSE LET doctorId == doctorAddressToId[sender]
                tos == <<patientIdToAddress[_patientId], sender>>
            IN  /\ Room(tos)
                /\ accessRequestCounter' = accessRequestCounter + 1
                /\ patientAccessRequests' =
                       [patientAccessRequests EXCEPT ![_patientId] =
                           <<AccessRequest(accessRequestCounter + 1, _recordId,
                                           doctorId, _patientId, _reason)>> \o @]
                /\ notifications' = ADD_NOTIFICATION(notifications, tos)
                /\ lastTx' = Tx("requestRecordAccess", sender, <<_patientId, _recordId>>)
                /\ UNCHANGED <<admin, userList, doctorCount, patientCount, doctorApproved,
                               doctorAddressToId, patientAddressToId, doctorIdToAddress,
                               patientIdToAddress, patientMedicalRecords, doctorRecordAccess,
                               registeredDoctors, registeredPatients>>

requestRecordAccess(sender, _patientId, _recordId, _reason) ==
    /\ accessRequestCounter < MaxRequests
    /\ UNCHANGED <<codecVars, policyVars>>
    /\ IF requestRecordAccessRevert(sender, _patientId, _recordId) # "" THEN Revert
       ELSE LET doctorId == doctorAddressToId[sender]
                tos == <<patientIdToAddress[_patientId], sender>>
            IN  /\ Room(tos)
                /\ accessRequestCounter' = accessRequestCounter + 1
                /\ patientAccessRequests' =
                       [patientAccessRequests EXCEPT ![_patientId] =
                           Append(@, AccessRequest(accessRequestCounter + 1, _recordId,
                                                   doctorId, _patientId, _reason))]
                /\ notifications' = ADD_NOTIFICATION(notifications, tos)
                /\ lastTx' = Tx("requestRecordAccess", sender, <<_patientId, _recordId>>)
                /\ UNCHANGED <<admin, userList, doctorCount, patientCount, doctorApproved,
                               doctorAddressToId, patientAddressToId, doctorIdToAddress,
                               patientIdToAddress, patientMedicalRecords, doctorRecordAccess,
                               registeredDoctors, registeredPatients>>

\* variant: the isPending require is missing
approveAccessRequestRevert_NoPendingCheck(sender, _requestIndex) ==
    LET patientId == patientAddressToId[sender]
    IN  IF ~(patientId > 0) THEN "Not a registered patient"
        ELSE IF ~(_requestIndex < Len(patientAccessRequests[patientId]))
        THEN "Request not found"
        ELSE ""

\* the requires shared by approveAccessRequest and denyAccessRequest
approveAccessRequestRevert(sender, _requestIndex) ==
    LET patientId == patientAddressToId[sender]
    IN  IF ~(patientId > 0) THEN "Not a registered patient"
        ELSE IF ~(_requestIndex < Len(patientAccessRequests[patientId]))
        THEN "Request not found"
        ELSE IF ~At(patientAccessRequests[patientId], _requestIndex).isPending
        THEN "Request already processed"
        ELSE ""

\* variant: the request is marked approved but the grant is not recorded
approveAccessRequest_NoGrant(sender, _requestIndex) ==
    /\ UNCHANGED <<codecVars, policyVars>>
    /\ IF approveAccessRequestRevert(sender, _requestIndex) # "" THEN Revert
       ELSE LET patientId == patientAddressToId[sender]
                request == At(patientAccessRequests[patientId], _requestIndex)
                tos == <<sender, doctorIdToAddress[request.doctorId]>>
            IN  /\ Room(tos)
                /\ patientAccessRequests' =
                       [patientAccessRequests EXCEPT
                           ![patientId][_requestIndex + 1].isPending = FALSE,
                           ![patientId][_requestIndex + 1].isApproved = TRUE]
                /\ notifications' = ADD_NOTIFICATION(notifications, tos)
                /\ lastTx' = Tx("approveAccessRequest", sender, <<_requestIndex>>)
                /\ UNCHANGED <<admin, userList, doctorCount, patientCount,
                               doctorApproved, doctorAddressToId, patientAddressToId,
                               doctorIdToAddress, patientIdToAddress,
                               patientMedicalRecords, doctorRecordAccess,
                               accessRequestCounter, registeredDoctors,
                               registeredPatients>>

\* variant: the approval also rewrites the stored package so that the
\* approved doctor satisfies its policy
approveAccessRequest_Rewraps(sender, _requestIndex) ==
    /\ UNCHANGED <<src, out, policyVars>>
    /\ IF approveAccessRequestRevert(sender, _requestIndex) # ""
       THEN UNCHANGED <<storageVars, lastTx, pkg>>
       ELSE LET patientId == patientAddressToId[sender]
                request == At(patientAccessRequests[patientId], _requestIndex)
                tos == <<sender, doctorIdToAddress[request.doctorId]>>
            IN  /\ Room(tos)
                /\ pkg' = IF pkg.module = "none" THEN pkg
                          ELSE [pkg EXCEPT !.policy =
                                   Node("AND", <<Leaf("role", "===", Str("doctor")),
                                                 Leaf("doctorId", "===",
                                                      Num(request.doctorId))>>)]
                /\ patientAccessRequests' =
                       [patientAccessRequests EXCEPT
                           ![patientId][_requestIndex + 1].isPending = FALSE,
                           ![patientId][_requestIndex + 1].isApproved = TRUE]
                /\ doctorRecordAccess' =
                       [doctorRecordAccess EXCEPT ![patientId][request.doctorId] = TRUE]
                /\ notifications' = ADD_NOTIFICATION(notifications, tos)
                /\ lastTx' = Tx("approveAccessRequest", sender, <<_requestIndex>>)
                /\ UNCHANGED <<admin, userList, doctorCount, patientCount,
                               doctorApproved, doctorAddressToId, patientAddressToId,
                               doctorIdToAddress, patientIdToAddress,
                               patientMedicalRecords, accessRequestCounter,
                               registeredDoctors, registeredPatients>>

\* the transaction: what approveAccessRequest does to the contract storage
approveAccessRequestTx(sender, _requestIndex) ==
    IF approveAccessRequestRevert(sender, _requestIndex) # "" THEN Revert
    ELSE LET patientId == patientAddressToId[sender]
             request == At(patientAccessRequests[patientId], _requestIndex)
             tos == <<sender, doctorIdToAddress[request.doctorId]>>
         IN  /\ Room(tos)
             /\ patientAccessRequests' =
                    [patientAccessRequests EXCEPT
                        ![patientId][_requestIndex + 1].isPending = FALSE,
                        ![patientId][_requestIndex + 1].isApproved = TRUE]
             /\ doctorRecordAccess' =
                    [doctorRecordAccess EXCEPT ![patientId][request.doctorId] = TRUE]
             /\ notifications' = ADD_NOTIFICATION(notifications, tos)
             /\ lastTx' = Tx("approveAccessRequest", sender, <<_requestIndex>>)
             /\ UNCHANGED <<admin, userList, doctorCount, patientCount,
                            doctorApproved, doctorAddressToId, patientAddressToId,
                            doctorIdToAddress, patientIdToAddress,
                            patientMedicalRecords, accessRequestCounter,
                            registeredDoctors, registeredPatients>>

approveAccessRequest(sender, _requestIndex) ==
    /\ UNCHANGED <<codecVars, policyVars>>
    /\ approveAccessRequestTx(sender, _requestIndex)

denyAccessRequestRevert(sender, _requestIndex) ==
    LET patientId == patientAddressToId[sender]
    IN  IF ~(patientId > 0) THEN "Not a registered patient"
        ELSE IF ~(_requestIndex < Len(patientAccessRequests[patientId]))
        THEN "Request not found"
        ELSE IF ~At(patientAccessRequests[patientId], _requestIndex).isPending
        THEN "Request already processed"
        ELSE ""

\* variant: the body of approveAccessRequest pasted into deny, grant included
denyAccessRequest_SetsGrant(sender, _requestIndex) ==
    /\ UNCHANGED <<codecVars, policyVars>>
    /\ IF denyAccessRequestRevert(sender, _requestIndex) # "" THEN Revert
       ELSE LET patientId == patientAddressToId[sender]
                request == At(patientAccessRequests[patientId], _requestIndex)
                tos == <<sender, doctorIdToAddress[request.doctorId]>>
            IN  /\ Room(tos)
                /\ patientAccessRequests' =
                       [patientAccessRequests EXCEPT
                           ![patientId][_requestIndex + 1].isPending = FALSE,
                           ![patientId][_requestIndex + 1].isApproved = FALSE]
                /\ doctorRecordAccess' =
                       [doctorRecordAccess EXCEPT ![patientId][request.doctorId] = TRUE]
                /\ notifications' = ADD_NOTIFICATION(notifications, tos)
                /\ lastTx' = Tx("denyAccessRequest", sender, <<_requestIndex>>)
                /\ UNCHANGED <<admin, userList, doctorCount, patientCount,
                               doctorApproved, doctorAddressToId, patientAddressToId,
                               doctorIdToAddress, patientIdToAddress,
                               patientMedicalRecords, accessRequestCounter,
                               registeredDoctors, registeredPatients>>

\* the transaction: what denyAccessRequest does to the contract storage
denyAccessRequestTx(sender, _requestIndex) ==
    IF denyAccessRequestRevert(sender, _requestIndex) # "" THEN Revert
    ELSE LET patientId == patientAddressToId[sender]
             request == At(patientAccessRequests[patientId], _requestIndex)
             tos == <<sender, doctorIdToAddress[request.doctorId]>>
         IN  /\ Room(tos)
             /\ patientAccessRequests' =
                    [patientAccessRequests EXCEPT
                        ![patientId][_requestIndex + 1].isPending = FALSE,
                        ![patientId][_requestIndex + 1].isApproved = FALSE]
             /\ notifications' = ADD_NOTIFICATION(notifications, tos)
             /\ lastTx' = Tx("denyAccessRequest", sender, <<_requestIndex>>)
             /\ UNCHANGED <<admin, userList, doctorCount, patientCount,
                            doctorApproved, doctorAddressToId, patientAddressToId,
                            doctorIdToAddress, patientIdToAddress,
                            patientMedicalRecords, doctorRecordAccess,
                            accessRequestCounter, registeredDoctors,
                            registeredPatients>>

denyAccessRequest(sender, _requestIndex) ==
    /\ UNCHANGED <<codecVars, policyVars>>
    /\ denyAccessRequestTx(sender, _requestIndex)

revokeAccessRevert(sender, _doctorId) ==
    IF ~(patientAddressToId[sender] > 0) THEN "Not a registered patient" ELSE ""

\* variant: the doctor's grant is cleared for every patient, not only the caller
revokeAccess_EveryPatient(sender, _doctorId) ==
    /\ UNCHANGED <<codecVars, policyVars>>
    /\ IF revokeAccessRevert(sender, _doctorId) # "" THEN Revert
       ELSE LET tos == <<sender, doctorIdToAddress[_doctorId]>>
            IN  /\ Room(tos)
                /\ doctorRecordAccess' =
                       [q \in PatientIds |->
                           [doctorRecordAccess[q] EXCEPT ![_doctorId] = FALSE]]
                /\ notifications' = ADD_NOTIFICATION(notifications, tos)
                /\ lastTx' = Tx("revokeAccess", sender, <<_doctorId>>)
                /\ UNCHANGED <<admin, userList, doctorCount, patientCount, doctorApproved,
                               doctorAddressToId, patientAddressToId, doctorIdToAddress,
                               patientIdToAddress, patientMedicalRecords,
                               patientAccessRequests, accessRequestCounter,
                               registeredDoctors, registeredPatients>>

\* variant: the grant is flipped instead of cleared
revokeAccess_Toggle(sender, _doctorId) ==
    /\ UNCHANGED <<codecVars, policyVars>>
    /\ IF revokeAccessRevert(sender, _doctorId) # "" THEN Revert
       ELSE LET patientId == patientAddressToId[sender]
                tos == <<sender, doctorIdToAddress[_doctorId]>>
            IN  /\ Room(tos)
                /\ doctorRecordAccess' =
                       [doctorRecordAccess EXCEPT
                           ![patientId][_doctorId] = ~doctorRecordAccess[patientId][_doctorId]]
                /\ notifications' = ADD_NOTIFICATION(notifications, tos)
                /\ lastTx' = Tx("revokeAccess", sender, <<_doctorId>>)
                /\ UNCHANGED <<admin, userList, doctorCount, patientCount, doctorApproved,
                               doctorAddressToId, patientAddressToId, doctorIdToAddress,
                               patientIdToAddress, patientMedicalRecords,
                               patientAccessRequests, accessRequestCounter,
                               registeredDoctors, registeredPatients>>

\* variant: only the patient is notified of a revoke
revokeAccess_PatientOnly(sender, _doctorId) ==
    /\ UNCHANGED <<codecVars, policyVars>>
    /\ IF revokeAccessRevert(sender, _doctorId) # "" THEN Revert
       ELSE LET patientId == patientAddressToId[sender]
                tos == <<sender>>
            IN  /\ Room(tos)
                /\ doctorRecordAccess' =
                       [doctorRecordAccess EXCEPT ![patientId][_doctorId] = FALSE]
                /\ notifications' = ADD_NOTIFICATION(notifications, tos)
                /\ lastTx' = Tx("revokeAccess", sender, <<_doctorId>>)
                /\ UNCHANGED <<admin, userList, doctorCount, patientCount, doctorApproved,
                               doctorAddressToId, patientAddressToId, doctorIdToAddress,
                               patientIdToAddress, patientMedicalRecords,
                               patientAccessRequests, accessRequestCounter,
                               registeredDoctors, registeredPatients>>

revokeAccess(sender, _doctorId) ==
    /\ UNCHANGED <<codecVars, policyVars>>
    /\ IF revokeAccessRevert(sender, _doctorId) # "" THEN Revert
       ELSE LET patientId == patientAddressToId[sender]
                tos == <<sender, doctorIdToAddress[_doctorId]>>
            IN  /\ Room(tos)
                /\ doctorRecordAccess' =
                       [doctorRecordAccess EXCEPT ![patientId][_doctorId] = FALSE]
                /\ notifications' = ADD_NOTIFICATION(notifications, tos)
                /\ lastTx' = Tx("revokeAccess", sender, <<_doctorId>>)
                /\ UNCHANGED <<admin, userList, doctorCount, patientCount, doctorApproved,
                               doctorAddressToId, patientAddressToId, doctorIdToAddress,
                               patientIdToAddress, patientMedicalRecords,
                               patientAccessRequests, accessRequestCounter,
                               registeredDoctors, registeredPatients>>

\* variant: the grant is not looked at
updateEncryptedMedicalRecordRevert_NoGrantCheck(sender, _patientId, _recordId) ==
    IF ~registeredDoctors[sender] THEN "Only registered doctors can perform this action"
    ELSE IF ~(_recordId < Len(patientMedicalRecords[_patientId])) THEN "Record not found"
    ELSE ""

updateEncryptedMedicalRecordRevert(sender, _patientId, _recordId) ==
    IF ~registeredDoctors[sender] THEN "Only registered doctors can perform this action"
    ELSE IF ~(_recordId < Len(patientMedicalRecords[_patientId])) THEN "Record not found"
    ELSE IF ~doctorRecordAccess[_patientId][doctorAddressToId[sender]]
    THEN "No access to patient records"
    ELSE ""

updateEncryptedMedicalRecord(sender, _patientId, _recordId, _newIpfsHash, _newEncryptedAESKey) ==
    /\ UNCHANGED <<codecVars, policyVars>>
    /\ IF updateEncryptedMedicalRecordRevert(sender, _patientId, _recordId) # "" THEN Revert
       ELSE LET tos == <<patientIdToAddress[_patientId], sender>>
            IN  /\ Room(tos)
                /\ patientMedicalRecords' =
                       [patientMedicalRecords EXCEPT
                           ![_patientId][_recordId + 1].ipfsHash = _newIpfsHash,
                           ![_patientId][_recordId + 1].encryptedAESKey = _newEncryptedAESKey,
                           ![_patientId][_recordId + 1].uploadedBy = sender]
                /\ notifications' = ADD_NOTIFICATION(notifications, tos)
                /\ lastTx' = Tx("updateEncryptedMedicalRecord", sender, <<_patientId, _recordId>>)
                /\ UNCHANGED <<admin, userList, doctorCount, patientCount, doctorApproved,
                               doctorAddressToId, patientAddressToId, doctorIdToAddress,
                               patientIdToAddress, patientAccessRequests, doctorRecordAccess,
                               accessRequestCounter, registeredDoctors, registeredPatients>>

deactivateMedicalRecordRevert(sender, _patientId, _recordId) ==
    IF ~(_recordId < Len(patientMedicalRecords[_patientId])) THEN "Record not found"
    ELSE IF ~(patientIdToAddress[_patientId] = sender \/ sender = admin)
    THEN "Only patient or admin can deactivate"
    ELSE ""

\* variant: the record is taken out of the array instead of being flagged
deactivateMedicalRecord_Removes(sender, _patientId, _recordId) ==
    /\ UNCHANGED <<codecVars, policyVars>>
    /\ IF deactivateMedicalRecordRevert(sender, _patientId, _recordId) # "" THEN Revert
       ELSE LET tos == <<patientIdToAddress[_patientId]>>
                records == patientMedicalRecords[_patientId]
            IN  /\ Room(tos)
                /\ patientMedicalRecords' =
                       [patientMedicalRecords EXCEPT ![_patientId] =
                           SubSeq(records, 1, _recordId)
                               \o SubSeq(records, _recordId + 2, Len(records))]
                /\ notifications' = ADD_NOTIFICATION(notifications, tos)
                /\ lastTx' = Tx("deactivateMedicalRecord", sender, <<_patientId, _recordId>>)
                /\ UNCHANGED <<admin, userList, doctorCount, patientCount, doctorApproved,
                               doctorAddressToId, patientAddressToId, doctorIdToAddress,
                               patientIdToAddress, patientAccessRequests, doctorRecordAccess,
                               accessRequestCounter, registeredDoctors, registeredPatients>>

deactivateMedicalRecord(sender, _patientId, _recordId) ==
    /\ UNCHANGED <<codecVars, policyVars>>
    /\ IF deactivateMedicalRecordRevert(sender, _patientId, _recordId) # "" THEN Revert
       ELSE LET tos == <<patientIdToAddress[_patientId]>>
            IN  /\ Room(tos)
                /\ patientMedicalRecords' =
                       [patientMedicalRecords EXCEPT ![_patientId][_recordId + 1].isActive = FALSE]
                /\ notifications' = ADD_NOTIFICATION(notifications, tos)
                /\ lastTx' = Tx("deactivateMedicalRecord", sender, <<_patientId, _recordId>>)
                /\ UNCHANGED <<admin, userList, doctorCount, patientCount, doctorApproved,
                               doctorAddressToId, patientAddressToId, doctorIdToAddress,
                               patientIdToAddress, patientAccessRequests, doctorRecordAccess,
                               accessRequestCounter, registeredDoctors, registeredPatients>>

----------------------------------------------------------------------------
(* Specifications *)

LedgerInit ==
    /\ constructor
    /\ pkg = None /\ src = None /\ out = None
    /\ built = None /\ verdict = None /\ ui = [screen |-> "none"]

Init == LedgerInit

Next ==
    \/ \E a \in Addresses, feeOk \in BOOLEAN : ADD_DOCTOR(a, feeOk)
    \/ \E a \in Addresses, d \in DoctorIds : APPROVE_DOCTOR_STATUS(a, d)
    \/ \E a, b \in Addresses, feeOk \in BOOLEAN : ADD_PATIENTS(a, b, feeOk)
    \/ \E a \in Addresses, p \in PatientIds, h \in {"", "Qm1"}, k \in {"", "wk1"} :
           /\ Len(patientMedicalRecords[p]) < MaxLedgerRecords
           /\ uploadEncryptedMedicalRecord(a, p, h, k, "policyA")
    \/ \E a \in Addresses, p \in PatientIds, r \in 0..MaxRecords :
           requestRecordAccess(a, p, r, "second opinion")
    \/ \E a \in Addresses, i \in 0..MaxRequests : approveAccessRequest(a, i)
    \/ \E a \in Addresses, i \in 0..MaxRequests : denyAccessRequest(a, i)
    \/ \E a \in Addresses, d \in DoctorIds : revokeAccess(a, d)
    \/ \E a \in Addresses, p \in PatientIds, r \in 0..MaxRecords :
           updateEncryptedMedicalRecord(a, p, r, "Qm2", "wk2")
    \/ \E a \in Addresses, p \in PatientIds, r \in 0..MaxRecords :
           deactivateMedicalRecord(a, p, r)

Spec == Init /\ [][Next]_vars

CodecInit ==
    /\ constructor
    /\ pkg = None /\ src = None /\ out = None
    /\ built = None /\ verdict = None /\ ui = [screen |-> "none"]

CodecNext ==
    \/ \E d \in CodecData, p \in CodecPolicies, k \in RandomHex : EncryptUtil(d, p, k)
    \/ \E d \in CpabeData, p \in CodecPolicies, k \in RandomHex, iv \in RandomHex :
           EncryptCpabe(d, p, k, iv)
    \/ \E p \in CodecPolicies : ReplacePolicy(p)
    \/ CorruptKey
    \/ CorruptData
    \/ \E a \in CodecAttrs, g1, g2 \in Garbage : DecryptUtil(a, g1, g2)
    \/ \E a \in CodecAttrs, g1, g2 \in Garbage : DecryptCpabe(a, g1, g2)

SpecCodec == CodecInit /\ [][CodecNext]_vars

PolicyInit ==
    /\ constructor
    /\ pkg = None /\ src = None /\ out = None
    /\ built = None /\ verdict = None /\ ui = [screen |-> "none"]

PolicyNext ==
    \/ \E p \in PolicyPatientIds, d \in OptDoctorId, sp \in OptSpeciality,
          adm \in BOOLEAN, ap \in OptApproved :
           BuildUtil(p, UtilOptions(d, sp, adm, ap))
    \/ \E p \in PolicyPatientIds, ds \in OptDoctorIds, sps \in OptSpecialties,
          hs \in OptHospitals, adm \in BOOLEAN, pat \in BOOLEAN, em \in BOOLEAN :
           BuildCpabe(CpabeOptions(p, ds, sps, hs, adm, pat, em), 1)
    \/ \E a \in PolicyAttrs : Evaluate(a)

SpecPolicy == PolicyInit /\ [][PolicyNext]_vars

\* the record store alone: registration, the access workflow that lets a
\* doctor update, and the three record functions, with two policies
RecordsNext ==
    \/ \E a \in Addresses : ADD_DOCTOR(a, TRUE)
    \/ \E a \in Addresses, d \in DoctorIds : APPROVE_DOCTOR_STATUS(a, d)
    \/ \E a, b \in Addresses : ADD_PATIENTS(a, b, TRUE)
    \/ \E a \in Addresses, p \in PatientIds, policy \in {"policyA", "policyB"} :
           uploadEncryptedMedicalRecord(a, p, "Qm1", "wk1", policy)
    \/ \E a \in Addresses, p \in PatientIds, r \in 0..MaxRecords :
           requestRecordAccess(a, p, r, "second opinion")
    \/ \E a \in Addresses, i \in 0..MaxRequests : approveAccessRequest(a, i)
    \/ \E a \in Addresses, p \in PatientIds, r \in 0..MaxRecords :
           updateEncryptedMedicalRecord(a, p, r, "Qm2", "wk2")
    \/ \E a \in Addresses, p \in PatientIds, r \in 0..MaxRecords :
           deactivateMedicalRecord(a, p, r)

SpecRecords == LedgerInit /\ [][RecordsNext]_vars

\* the ledger's writes of records under grants that come and go
WritesNext ==
    \/ \E a \in Addresses : ADD_DOCTOR(a, TRUE)
    \/ \E a \in Addresses, d \in DoctorIds : APPROVE_DOCTOR_STATUS(a, d)
    \/ \E a, b \in Addresses : ADD_PATIENTS(a, b, TRUE)
    \/ \E a \in Addresses, p \in PatientIds :
           uploadEncryptedMedicalRecord(a, p, "Qm1", "wk1", "policyA")
    \/ \E a \in Addresses, p \in PatientIds, r \in 0..MaxRecords :
           requestRecordAccess(a, p, r, "second opinion")
    \/ \E a \in Addresses, i \in 0..MaxRequests : approveAccessRequest(a, i)
    \/ \E a \in Addresses, d \in DoctorIds : revokeAccess(a, d)
    \/ \E a \in Addresses, p \in PatientIds, r \in 0..MaxRecords :
           updateEncryptedMedicalRecord(a, p, r, "Qm2", "wk2")

SpecWrites == LedgerInit /\ [][WritesNext]_vars

----------------------------------------------------------------------------
(* The record screens of the client: a patient encrypts and stores a record,
   a doctor opens one.  The package travels through IPFS; the ledger is only
   asked for the caller's identity. *)

\* getUserAttributes of the CP-ABE module; the address and the timestamp are
\* left out, no policy the model builds reads them
getUserAttributesCpabe(role, patientId, doctorId) ==
    LET names == {"role"}
                 \cup (IF role = "patient" /\ patientId # Null THEN {"patientId"} ELSE {})
                 \cup (IF role = "doctor" /\ doctorId # Null THEN {"doctorId"} ELSE {})
    IN  [n \in names |->
            CASE n = "role" -> Str(ToLowerCase(role))
              [] n = "patientId" -> ToNumber(patientId)
              [] OTHER -> ToNumber(doctorId)]

\* the speciality on the profile of the doctors of the model
Specialization == "Neurology"

\* the attributes handleViewRecord presents for the doctor at an address
doctorAttributes(address) ==
    LET base == getUserAttributesCpabe("doctor", Null, Num(doctorAddressToId[address]))
    IN  [n \in DOMAIN base \cup {"specialty"} |->
            IF n = "specialty" THEN Str(ToLowerCase(Specialization)) ELSE base[n]]

\* handleUpload up to the encryption: the policy is built from the form and
\* the file is encrypted under it
handleUpload(address, selectedDoctors, k, iv) ==
    /\ patientAddressToId[address] > 0
    /\ EncryptCpabe(Blob(<<"scan">>),
                    createMedicalRecordPolicyCpabe(
                        CpabeOptions(Num(patientAddressToId[address]), selectedDoctors,
                                     List(<< >>), List(<< >>), TRUE, TRUE, FALSE), 1),
                    k, iv)

\* handleViewRecord: the doctor's attributes are assembled and the package is
\* downloaded and decrypted with them
handleViewRecord(address, g1, g2) ==
    /\ doctorAddressToId[address] > 0
    /\ DecryptCpabe(doctorAttributes(address), g1, g2)

AccessInit ==
    /\ constructor
    /\ pkg = None /\ src = None /\ out = None
    /\ built = None /\ verdict = None /\ ui = [screen |-> "none"]

AccessNext ==
    \/ \E a \in Addresses : ADD_DOCTOR(a, TRUE)
    \/ \E a \in Addresses, d \in DoctorIds : APPROVE_DOCTOR_STATUS(a, d)
    \/ \E a, b \in Addresses : ADD_PATIENTS(a, b, TRUE)
    \/ \E a \in Addresses, p \in PatientIds :
           /\ Len(patientMedicalRecords[p]) < MaxLedgerRecords
           /\ uploadEncryptedMedicalRecord(a, p, "Qm1", "wk1", "policyA")
    \/ \E a \in Addresses, p \in PatientIds, r \in 0..MaxRecords :
           requestRecordAccess(a, p, r, "second opinion")
    \/ \E a \in Addresses, i \in 0..MaxRequests : approveAccessRequest(a, i)
    \/ \E a \in Addresses : handleUpload(a, List(Num(1)), "r1", "r1")
    \/ \E a \in Addresses, g1, g2 \in Garbage : handleViewRecord(a, g1, g2)

SpecAccess == AccessInit /\ [][AccessNext]_vars

----------------------------------------------------------------------------
(* Evaluator runs: a leaf or a policy tree is handed to the evaluators of
   both modules together with an attribute set *)

\* the most children a node of an evaluated tree has
MaxChildren == 2

RECURSIVE SeqsUpTo(_, _)
SeqsUpTo(S, n) ==
    IF n = 0 THEN {<< >>}
    ELSE LET shorter == SeqsUpTo(S, n - 1)
         IN  shorter \cup {Append(s, x) : s \in {t \in shorter : Len(t) = n - 1}, x \in S}

\* the leaves handed to the evaluators; relational operators are only paired
\* with a number
EvalLeaves ==
    LET attributes == {"role", "doctorId", "specialty"}
        values == {Str("doctor"), Num(3), List(Num(3) \o Num(9)), List(Str("cardiology"))}
    IN  {Leaf(a, op, v) : a \in attributes, op \in {"===", "!==", "includes", "in"},
                          v \in values}
        \cup {Leaf(a, op, Num(3)) : a \in attributes, op \in {">", "<="}}

\* trees of depth two over two leaves, empty nodes included
EvalTrees ==
    LET leaves == {Leaf("role", "===", Str("doctor")), Leaf("doctorId", "===", Num(3))}
        inner == {Node(t, cs) : t \in {"AND", "OR"}, cs \in SeqsUpTo(leaves, MaxChildren)}
    IN  {Node(t, cs) : t \in {"AND", "OR"}, cs \in SeqsUpTo(leaves \cup inner, MaxChildren)}

EvalAttrs ==
    {[address |-> Str("0xa")],
     [role |-> Str("doctor")],
     [doctorId |-> Num(3), role |-> Str("doctor")],
     [doctorId |-> Num(5), role |-> Str("doctor")],
     [doctorId |-> Num(3), role |-> Str("patient")],
     [role |-> Str("doctor"), specialty |-> List(Str("cardiology"))],
     [doctorId |-> List(Num(3) \o Num(9)), role |-> List(Str("doctor"))]}

\* checkCondition and the closure evaluateCondition applied to a leaf
CheckLeaf(attrs) ==
    /\ built.module = "leaf"
    /\ verdict' = [attrs |-> attrs,
                   module |-> "leaf",
                   util |-> checkCondition(built.policy, attrs),
                   cpabe |-> evaluateCondition(built.policy, attrs)]
    /\ UNCHANGED <<built, ui, ledgerVars, codecVars>>

\* checkPolicySatisfaction and evaluatePolicy applied to a tree
CheckTree(attrs) ==
    /\ built.module = "tree"
    /\ verdict' = [attrs |-> attrs,
                   module |-> "tree",
                   util |-> checkPolicySatisfaction(built.policy, attrs),
                   cpabe |-> evaluatePolicy(built.policy, attrs)]
    /\ UNCHANGED <<built, ui, ledgerVars, codecVars>>

EvalInit ==
    /\ constructor
    /\ pkg = None /\ src = None /\ out = None
    /\ built \in {[policy |-> p, module |-> "leaf"] : p \in EvalLeaves}
                 \cup {[policy |-> p, module |-> "tree"] : p \in EvalTrees}
    /\ verdict = None /\ ui = [screen |-> "none"]

EvalNext ==
    \/ \E a \in EvalAttrs : CheckLeaf(a)
    \/ \E a \in EvalAttrs : CheckTree(a)

SpecEval == EvalInit /\ [][EvalNext]_vars

----------------------------------------------------------------------------
(* Attribute runs: getUserAttributes of either module is called and the
   attributes are put to the module's evaluator under a Scenario A policy *)

\* getUserAttributes of utils/encryption.js; the address is left out, no
\* policy the model builds reads it
getUserAttributesUtil(role, patientId, doctorId, speciality) ==
    [patientId |-> patientId,
     doctorId |-> doctorId,
     role |-> Str(role),
     speciality |-> speciality]

GetAttributesUtil(role, patientId, doctorId, speciality) ==
    /\ built.module = "util"
    /\ verdict' =
           LET attrs == getUserAttributesUtil(role, patientId, doctorId, speciality)
           IN  [attrs |-> attrs,
                module |-> "util",
                sat |-> checkPolicySatisfaction(built.policy, attrs),
                input |-> [patientId |-> patientId,
                           doctorId |-> doctorId,
                           role |-> role,
                           speciality |-> speciality]]
    /\ UNCHANGED <<built, ui, ledgerVars, codecVars>>

GetAttributesCpabe(role, patientId, doctorId) ==
    /\ built.module = "cpabe"
    /\ verdict' =
           LET attrs == getUserAttributesCpabe(role, patientId, doctorId)
           IN  [attrs |-> attrs,
                module |-> "cpabe",
                sat |-> evaluatePolicy(built.policy, attrs),
                input |-> [patientId |-> patientId,
                           doctorId |-> doctorId,
                           role |-> role,
                           speciality |-> Null]]
    /\ UNCHANGED <<built, ui, ledgerVars, codecVars>>

AttrInit ==
    /\ constructor
    /\ pkg = None /\ src = None /\ out = None
    /\ built \in {[policy |-> ScenarioAUtil, module |-> "util"],
                  [policy |-> ScenarioACpabe, module |-> "cpabe"]}
    /\ verdict = None /\ ui = [screen |-> "none"]

AttrNext ==
    LET roles == {"doctor", "Doctor", "patient", "Patient", "admin", "Admin"}
        patientIds == {Null, Num(7), Num(8)}
        doctorIds == {Null, Num(3)}
        specialities == {Null, Str("cardiology"), Str("Cardiology")}
    IN  \/ \E role \in roles, p \in patientIds, d \in doctorIds, sp \in specialities :
               GetAttributesUtil(role, p, d, sp)
        \/ \E role \in roles, p \in patientIds, d \in doctorIds :
               GetAttributesCpabe(role, p, d)

SpecAttrs == AttrInit /\ [][AttrNext]_vars

----------------------------------------------------------------------------
(* hooks/useContract.js: updatePatientMedicalHistory, and the contract
   function it calls *)

UPDATE_PATIENT_MEDICAL_HISTORYRevert(sender, _patientId) ==
    IF ~registeredDoctors[sender] THEN "Only registered doctors can perform this action"
    ELSE IF ~(_patientId <= patientCount) THEN "Patient does not exist"
    ELSE ""

\* the string the hook hands to the contract.  lookup is the outcome of the
\* reads that fetch the caller's doctor id: "doctor" when they return it,
\* anything else leaves doctorId null.  createMedicalRecordPolicy receives
\* doctorId in the place of its options object: a number destructures to the
\* defaults, null throws a TypeError, which the hook catches and then keeps
\* the entry as it is.  The timestamp encrypted with the entry is left out.
historyToStore(address, patientId, newHistory, encryptFlag, publicClient, lookup, k) ==
    LET doctorId == IF lookup = "doctor" THEN Num(doctorAddressToId[address]) ELSE Null
        accessPolicy == createMedicalRecordPolicyUtil(Num(patientId),
                            UtilOptions(Null, Null, TRUE, List(<< >>)))
    IN  IF encryptFlag /\ publicClient /\ doctorId # Null
        THEN [kind |-> "package", package |-> encrypt(Str(newHistory), accessPolicy, k)]
        ELSE [text |-> newHistory, kind |-> "text"]

updatePatientMedicalHistory(address, patientId, newHistory, encryptFlag, publicClient, lookup, k) ==
    /\ lookup = "doctor" => doctorAddressToId[address] > 0
    /\ UNCHANGED <<pkg, out, policyVars>>
    /\ IF UPDATE_PATIENT_MEDICAL_HISTORYRevert(address, patientId) # ""
       THEN UNCHANGED <<storageVars, src>>
       ELSE LET tos == <<address, patientIdToAddress[patientId], admin>>
                stored == historyToStore(address, patientId, newHistory, encryptFlag,
                                         publicClient, lookup, k)
            IN  /\ Room(tos)
                /\ src' = [data |-> newHistory, module |-> "history", encryptFlag |-> encryptFlag]
                /\ notifications' = ADD_NOTIFICATION(notifications, tos)
                /\ lastTx' = Tx("UPDATE_PATIENT_MEDICAL_HISTORY", address, <<patientId, stored>>)
                /\ UNCHANGED <<admin, userList, doctorCount, patientCount, doctorApproved,
                               doctorAddressToId, patientAddressToId, doctorIdToAddress,
                               patientIdToAddress, patientMedicalRecords,
                               patientAccessRequests, doctorRecordAccess,
                               accessRequestCounter, registeredDoctors, registeredPatients>>

HistoryNext ==
    \/ \E a \in Addresses : ADD_DOCTOR(a, TRUE)
    \/ \E a, b \in Addresses : ADD_PATIENTS(a, b, TRUE)
    \/ \E a \in Addresses, p \in PatientIds, e, c \in BOOLEAN,
          lookup \in {"doctor", "other", "failed"}, k \in RandomHex :
           updatePatientMedicalHistory(a, p, "bp 120/80", e, c, lookup, k)

SpecHistory == LedgerInit /\ [][HistoryNext]_vars

----------------------------------------------------------------------------
(* The screens that read the ledger: the doctor's record view
   (DoctorMedicalRecordAccess.jsx) and the patient's request screen
   (AccessRequestManagement, part_002), with the hooks they read through
   (part_003).  readOk says whether the ledger answered the read. *)

\* hasDoctorAccess of the hook: a failed read is caught and false returned
hasDoctorAccessHook(patientId, doctorId, readOk) ==
    IF readOk THEN Bool(hasDoctorAccess(patientId, doctorId)) ELSE Bool(FALSE)

\* getPatientAccessRequests of the hook, applied to the request lists given:
\* a failed read is caught and [] returned
getPatientAccessRequestsHook(requests, patientId, readOk) ==
    IF readOk THEN requests[patientId] ELSE << >>

\* loadRecords, followed by checkAccess of the record cards: the grant, the
\* record list and the policy decision are put into component state
loadRecords(address, patientId, readOk) ==
    /\ doctorAddressToId[address] > 0
    /\ patientId > 0
    /\ ui' = [patientId |-> patientId,
              records |-> IF readOk THEN Len(patientMedicalRecords[patientId]) ELSE 0,
              screen |-> "records",
              address |-> address,
              readOk |-> readOk,
              hasAccess |-> hasDoctorAccessHook(patientId, doctorAddressToId[address], readOk),
              canDecrypt |-> /\ pkg.module = "cpabe" /\ evaluatePolicy(pkg.policy, doctorAttributes(address))]
    /\ UNCHANGED <<built, verdict, ledgerVars, codecVars>>

\* the View Record button of a record card: shown when canDecrypt || hasAccess,
\* it calls handleViewRecord
onViewRecord(address, g1, g2) ==
    /\ ui.screen = "records"
    /\ ui.address = address
    /\ ui.records > 0
    /\ ui.canDecrypt \/ ui.hasAccess = Bool(TRUE)
    /\ handleViewRecord(address, g1, g2)

\* loadData of the request screen
loadData(address, readOk) ==
    /\ patientAddressToId[address] > 0
    /\ ui' = [patientId |-> patientAddressToId[address],
              screen |-> "requests",
              address |-> address,
              readOk |-> readOk,
              requests |-> getPatientAccessRequestsHook(patientAccessRequests, patientAddressToId[address], readOk),
              selectedRequest |-> 0,
              confirmAction |-> "none",
              confirmed |-> 0]
    /\ UNCHANGED <<built, verdict, ledgerVars, codecVars>>

\* handleApprove / handleDeny on the j-th request shown
handleApprove(address, j) ==
    /\ ui.screen = "requests"
    /\ ui.address = address
    /\ j \in 1..Len(ui.requests)
    /\ ui.requests[j].isPending
    /\ ui' = [ui EXCEPT !.selectedRequest = ui.requests[j].id, !.confirmAction = "approve"]
    /\ UNCHANGED <<built, verdict, ledgerVars, codecVars>>

handleDeny(address, j) ==
    /\ ui.screen = "requests"
    /\ ui.address = address
    /\ j \in 1..Len(ui.requests)
    /\ ui.requests[j].isPending
    /\ ui' = [ui EXCEPT !.selectedRequest = ui.requests[j].id, !.confirmAction = "deny"]
    /\ UNCHANGED <<built, verdict, ledgerVars, codecVars>>

\* handleConfirm: findIndex over the cached list, the transaction, and the
\* reload that follows a mined transaction (a revert is thrown and caught,
\* the screen stays as it is).  confirmed keeps the length the cached list
\* had when the transaction was sent.
handleConfirm(address, readOk) ==
    /\ ui.screen = "requests"
    /\ ui.address = address
    /\ ui.selectedRequest # 0
    /\ LET found == {i \in 1..Len(ui.requests) : ui.requests[i].id = ui.selectedRequest}
           requestIndex == (CHOOSE i \in found : \A k \in found : i <= k) - 1
           reverts == IF ui.confirmAction = "approve"
                      THEN approveAccessRequestRevert(address, requestIndex) # ""
                      ELSE denyAccessRequestRevert(address, requestIndex) # ""
       IN  /\ found # {}
           /\ IF ui.confirmAction = "approve"
              THEN approveAccessRequestTx(address, requestIndex)
              ELSE denyAccessRequestTx(address, requestIndex)
           /\ ui' = IF reverts THEN ui
                    ELSE [ui EXCEPT
                             !.readOk = readOk,
                             !.requests = getPatientAccessRequestsHook(
                                              patientAccessRequests', ui.patientId, readOk),
                             !.selectedRequest = 0,
                             !.confirmAction = "none",
                             !.confirmed = Len(ui.requests)]
    /\ UNCHANGED <<built, verdict, codecVars>>

\* the doctor's record view over the ledger
ViewNext ==
    \/ \E a \in Addresses : ADD_DOCTOR(a, TRUE)
    \/ \E a \in Addresses, d \in DoctorIds : APPROVE_DOCTOR_STATUS(a, d)
    \/ \E a, b \in Addresses : ADD_PATIENTS(a, b, TRUE)
    \/ \E a \in Addresses, p \in PatientIds :
           /\ Len(patientMedicalRecords[p]) < MaxLedgerRecords
           /\ uploadEncryptedMedicalRecord(a, p, "Qm1", "wk1", "policyA")
    \/ \E a \in Addresses, p \in PatientIds, r \in 0..MaxRecords :
           requestRecordAccess(a, p, r, "second opinion")
    \/ \E a \in Addresses, i \in 0..MaxRequests : approveAccessRequest(a, i)
    \/ \E a \in Addresses, d \in DoctorIds :
           /\ doctorRecordAccess[patientAddressToId[a]][d]
           /\ revokeAccess(a, d)
    \/ \E a \in Addresses : handleUpload(a, List(Num(1)), "r1", "r1")
    \/ \E a \in Addresses, p \in PatientIds, ok \in BOOLEAN : loadRecords(a, p, ok)
    \/ \E a \in Addresses, g1, g2 \in Garbage : onViewRecord(a, g1, g2)

SpecView == AccessInit /\ [][ViewNext]_vars

\* the patient's request screen over the ledger
RequestsNext ==
    \/ \E a \in Addresses : ADD_DOCTOR(a, TRUE)
    \/ \E a \in Addresses, d \in DoctorIds : APPROVE_DOCTOR_STATUS(a, d)
    \/ \E a, b \in Addresses : ADD_PATIENTS(a, b, TRUE)
    \/ \E a \in Addresses, p \in PatientIds :
           /\ Len(patientMedicalRecords[p]) < MaxLedgerRecords
           /\ uploadEncryptedMedicalRecord(a, p, "Qm1", "wk1", "policyA")
    \/ \E a \in Addresses, p \in PatientIds, r \in 0..MaxRecords :
           requestRecordAccess(a, p, r, "second opinion")
    \/ \E a \in Addresses, ok \in BOOLEAN : loadData(a, ok)
    \/ \E a \in Addresses, j \in 1..MaxRequests : handleApprove(a, j)
    \/ \E a \in Addresses, j \in 1..MaxRequests : handleDeny(a, j)
    \/ \E a \in Addresses, ok \in BOOLEAN : handleConfirm(a, ok)

SpecRequests == AccessInit /\ [][RequestsNext]_vars

----------------------------------------------------------------------------
(* Claims about decrypt and the policy builders *)

\* a decrypt of the package at hand has completed
Decrypted == out.module # "none"

\* the decision of the decrypting module's evaluator for the last decrypt
Allowed == Satisfies(out.module, pkg.policy, out.attrs)

KeyIntact == pkg.encryptedKey = src.pkg.encryptedKey
DataIntact == pkg.encryptedData = src.pkg.encryptedData
PolicyIntact == pkg.policy = src.policy

\* C1: whenever the attribute set does not satisfy the package's embedded
\* policy, decrypt fails with the access-denied error and returns no value
\* (neither the content key nor any plaintext).
C1_DeniedWhenUnsatisfied ==
    (Decrypted /\ ~Allowed) =>
        /\ ~out.result.ok
        /\ IsAccessDenied(out.result.err)
        /\ out.result.value = Undefined

\* Scenario A: doctor 9 (neurology) was refused the record of patient 7
C1_Witness ==
    /\ Decrypted
    /\ out.module = "cpabe"
    /\ PolicyIntact /\ KeyIntact /\ DataIntact
    /\ src.policy = ScenarioACpabe
    /\ out.attrs = DoctorAttrs(Num(9), Str("neurology"))
    /\ IsAccessDenied(out.result.err)

\* C2: decrypting an untouched package with attributes that satisfy its policy
\* returns the data that was encrypted (round trip), in both modules.
C2_RoundTrip ==
    (Decrypted /\ PolicyIntact /\ KeyIntact /\ DataIntact /\ Allowed) =>
        ReturnsData(out.module, out.result, src.data)

\* C8: once the policy field of a package has been replaced by a different
\* policy, decrypt does not return the data, even for attributes that satisfy
\* the replacement policy (the wrap key depends on the policy).
C8_PolicyBoundWrapKey ==
    (Decrypted /\ ~PolicyIntact /\ Allowed) =>
        ~ReturnsData(out.module, out.result, src.data)

\* the access-denied outcome of each module: only the evaluation has run
DeniedOutcome(module) ==
    IF module = "util"
    THEN Throw(<<"Failed to decrypt data: ", "Failed to decrypt AES key with ABE: ",
                 "User attributes do not satisfy access policy">>,
               <<"checkPolicySatisfaction">>)
    ELSE Throw(<<"Failed to decrypt medical record: ",
                 "Access denied: Your attributes do not satisfy the access policy">>,
               <<"evaluatePolicy">>)

\* C9: when the policy evaluation is false, the evaluation is the only step
\* decrypt has performed (no wrap key derived, no unwrap attempted), and the
\* outcome is the same access-denied failure whatever the state of the wrapped key.
C9_EvaluationBeforeUnwrap ==
    (Decrypted /\ ~Allowed) => out.result = DeniedOutcome(out.module)

\* a refused decrypt of a package whose wrapped key had been damaged
C9_Witness ==
    /\ Decrypted
    /\ out.module = "util"
    /\ ~KeyIntact
    /\ ~Allowed
    /\ out.result = DeniedOutcome("util")

\* C10: when the policy check passes and the wrapped key or the ciphertext is
\* damaged, decrypt fails with an error that is not the access-denied error,
\* and returns no value.
C10_CorruptEnvelopeDistinct ==
    (Decrypted /\ Allowed /\ (~KeyIntact \/ ~DataIntact)) =>
        /\ ~out.result.ok
        /\ ~IsAccessDenied(out.result.err)

\* a policy has been built
Built == built.module # "none"

\* the attribute set of the record's owner
OwnerAttrs == PatientAttrs(built.patientId)

\* The clauses of the medical-record policy as the specification lists them,
\* each a conjunction, for the options the caller passed.
ListedClauses(attrs) ==
    LET o == built.options
        role == Attr(attrs, "role")
        isDoctor == role = Str("doctor")
    IN  IF built.module = "util"
        THEN \/ role = Str("patient") /\ Attr(attrs, "patientId") = built.patientId
             \/ Truthy(o.doctorId) /\ isDoctor /\ Attr(attrs, "doctorId") = o.doctorId
             \/ Truthy(o.doctorSpeciality) /\ isDoctor
                    /\ Attr(attrs, "speciality") = o.doctorSpeciality
             \/ isDoctor /\ Includes(o.approvedDoctorIds, Attr(attrs, "doctorId"))
             \/ o.allowAdmin /\ role = Str("admin")
        ELSE \/ role = Str("patient") /\ Attr(attrs, "patientId") = built.patientId
             \/ isDoctor /\ Includes(o.doctorIds, Attr(attrs, "doctorId"))
             \/ isDoctor /\ \E i \in 1..ListLength(o.specialties) :
                    Attr(attrs, "specialty")
                        = Str(ToLowerCase(ListItem(o.specialties, i)[2]))
             \/ o.allowAdmin /\ role = Str("admin")
             \/ o.emergencyAccess /\ isDoctor /\ Attr(attrs, "emergency") = Bool(TRUE)

\* the options the listed clauses speak about
ListedOptions ==
    built.module = "cpabe" =>
        built.options.allowPatient /\ ListLength(built.options.hospitals) = 0

\* C6: the built policy is satisfied by an attribute set exactly when the set
\* satisfies one of the listed clauses, each taken as a conjunction.
C6_ClausesAreConjunctions ==
    (Built /\ verdict.module # "none" /\ ListedOptions) =>
        (verdict.sat <=> ListedClauses(verdict.attrs))

----------------------------------------------------------------------------
(* Claims about the access-request ledger *)

\* request i (1-based position) of patient p has left Pending
Resolved(p, i) == ~patientAccessRequests[p][i].isPending

AlreadyProcessed == "Request already processed"
NotRegisteredPatient == "Not a registered patient"

\* the owner's approve or deny of a resolved request reverts with
\* 'Request already processed' (a reverting call changes nothing)
C3_LaterCallsFail ==
    \A a \in Addresses :
        LET p == patientAddressToId[a]
        IN  p > 0 =>
              \A i \in 1..Len(patientAccessRequests[p]) :
                  Resolved(p, i) =>
                      /\ approveAccessRequestRevert(a, i - 1) = AlreadyProcessed
                      /\ denyAccessRequestRevert(a, i - 1) = AlreadyProcessed

\* no step of any call changes a request that is already resolved
C3_ResolvedKept ==
    \A p \in PatientIds :
        \A i \in 1..Len(patientAccessRequests[p]) :
            Resolved(p, i) => patientAccessRequests'[p][i] = patientAccessRequests[p][i]

\* C3: once approveAccessRequest or denyAccessRequest has moved a request out
\* of Pending, the request never changes again under any interleaving of
\* calls, and every later approve or deny of it fails with
\* 'Request already processed'.
C3_ResolvedIsFinal == []C3_LaterCallsFail /\ [][C3_ResolvedKept]_vars

\* a denied request stayed denied while a later request of the same patient
\* was approved
C3_Witness ==
    \E p \in PatientIds :
        /\ Len(patientAccessRequests[p]) = 2
        /\ ~patientAccessRequests[p][1].isPending
        /\ ~patientAccessRequests[p][1].isApproved
        /\ lastTx = Tx("approveAccessRequest", patientIdToAddress[p], <<1>>)

\* C4: right after a successful approveAccessRequest by patient P the request
\* is Approved (isPending false, isApproved true) and hasDoctorAccess(P, D)
\* is true for the doctor D who made it.
C4_ApproveGrants ==
    lastTx.fn = "approveAccessRequest" =>
        LET P == patientAddressToId[lastTx.sender]
            request == At(patientAccessRequests[P], lastTx.args[1])
        IN  /\ ~request.isPending
            /\ request.isApproved
            /\ hasDoctorAccess(P, request.doctorId)

\* a doctor's second request to the same patient was approved and the grant is set
C4_Witness ==
    /\ lastTx.fn = "approveAccessRequest"
    /\ lastTx.args = <<1>>
    /\ LET P == patientAddressToId[lastTx.sender]
       IN  /\ patientAccessRequests[P][1].doctorId = patientAccessRequests[P][2].doctorId
           /\ hasDoctorAccess(P, patientAccessRequests[P][2].doctorId)

\* C5 as stated: approve or deny of a request by any caller other than its
\* owner fails with the authorisation error.
C5_NonOwnerUnauthorised ==
    \A a \in Addresses, p \in PatientIds :
        \A i \in 1..Len(patientAccessRequests[p]) :
            patientAddressToId[a] # p =>
                /\ approveAccessRequestRevert(a, i - 1) = NotRegisteredPatient
                /\ denyAccessRequestRevert(a, i - 1) = NotRegisteredPatient

\* a caller that is not a registered patient is refused by all three calls
C5_UnregisteredRefused ==
    \A a \in Addresses :
        patientAddressToId[a] = 0 =>
            /\ \A i \in 0..MaxRequests :
                   /\ approveAccessRequestRevert(a, i) = NotRegisteredPatient
                   /\ denyAccessRequestRevert(a, i) = NotRegisteredPatient
            /\ \A d \in DoctorIds : revokeAccessRevert(a, d) = NotRegisteredPatient

\* a step of approve, deny or revoke touches the caller's own requests and
\* grants only; revoke touches no request and only the named doctor's grant
C5_OwnOnly ==
    lastTx'.fn \in {"approveAccessRequest", "denyAccessRequest", "revokeAccess"} =>
        LET P == patientAddressToId[lastTx'.sender]
        IN  /\ \A q \in PatientIds \ {P} :
                   /\ patientAccessRequests'[q] = patientAccessRequests[q]
                   /\ doctorRecordAccess'[q] = doctorRecordAccess[q]
            /\ lastTx'.fn = "revokeAccess" =>
                   /\ patientAccessRequests' = patientAccessRequests
                   /\ \A d \in DoctorIds \ {lastTx'.args[1]} :
                          doctorRecordAccess'[P][d] = doctorRecordAccess[P][d]

\* C5 amended: approve and deny address a request by its position in the
\* calling patient's own list, so no call reaches another patient's request;
\* a caller that is not a registered patient fails with 'Not a registered
\* patient', and a step of approve, deny or revoke leaves every other
\* patient's requests and grants unchanged.
C5_OwnerOnly == []C5_UnregisteredRefused /\ [][C5_OwnOnly]_vars

\* a patient revoked a doctor while another patient's grant to that doctor stayed
C5_Witness ==
    \E p, q \in PatientIds : \E d \in DoctorIds :
        /\ p # q /\ p > 0 /\ q > 0
        /\ hasDoctorAccess(p, d)
        /\ lastTx = Tx("revokeAccess", patientIdToAddress[q], <<d>>)

\* right after a successful deny the request is Denied, and the owner's
\* approve of it reverts with 'Request already processed'
C11_DeniedAfterDeny ==
    lastTx.fn = "denyAccessRequest" =>
        LET P == patientAddressToId[lastTx.sender]
            request == At(patientAccessRequests[P], lastTx.args[1])
        IN  /\ ~request.isPending
            /\ ~request.isApproved
            /\ approveAccessRequestRevert(lastTx.sender, lastTx.args[1]) = AlreadyProcessed

\* a step of denyAccessRequest changes no entry of doctorRecordAccess
C11_DenyKeepsGrants ==
    lastTx'.fn = "denyAccessRequest" => doctorRecordAccess' = doctorRecordAccess

\* C11: a successful denyAccessRequest sets the request to Denied (isPending
\* false, isApproved false) and changes no entry of doctorRecordAccess; a
\* later approve of the same request fails, so a grant that was false stays false.
C11_DenyFrame == []C11_DeniedAfterDeny /\ [][C11_DenyKeepsGrants]_vars

\* a request was denied and the doctor who made it holds no grant
C11_Witness ==
    /\ lastTx.fn = "denyAccessRequest"
    /\ LET P == patientAddressToId[lastTx.sender]
           request == At(patientAccessRequests[P], lastTx.args[1])
       IN  /\ ~request.isPending
           /\ ~request.isApproved
           /\ ~hasDoctorAccess(P, request.doctorId)

\* right after a successful revokeAccess(D) by patient P the grant is false
C12_RevokedAfterRevoke ==
    lastTx.fn = "revokeAccess" =>
        ~hasDoctorAccess(patientAddressToId[lastTx.sender], lastTx.args[1])

\* a step of revokeAccess(D) by P changes no request and no grant but
\* doctorRecordAccess[P][D]; when that grant was already false it changes no grant
C12_RevokeKeepsRest ==
    lastTx'.fn = "revokeAccess" =>
        LET P == patientAddressToId[lastTx'.sender]
            D == lastTx'.args[1]
        IN  /\ patientAccessRequests' = patientAccessRequests
            /\ \A p \in PatientIds, d \in DoctorIds :
                   (p # P \/ d # D) => doctorRecordAccess'[p][d] = doctorRecordAccess[p][d]
            /\ ~doctorRecordAccess[P][D] => doctorRecordAccess' = doctorRecordAccess

\* C12: revokeAccess(D) by patient P sets doctorRecordAccess[P][D] to false
\* whatever it was (repeating it changes nothing further) and leaves every
\* request and every other grant unchanged, so an Approved request stays
\* Approved while hasDoctorAccess(P, D) is false.
C12_RevokeFrame == []C12_RevokedAfterRevoke /\ [][C12_RevokeKeepsRest]_vars

\* P revoked D after approving D's request: the request is still Approved,
\* the grant is gone
C12_Witness ==
    /\ lastTx.fn = "revokeAccess"
    /\ LET P == patientAddressToId[lastTx.sender]
           D == lastTx.args[1]
       IN  /\ ~hasDoctorAccess(P, D)
           /\ \E i \in 1..Len(patientAccessRequests[P]) :
                  /\ patientAccessRequests[P][i].doctorId = D
                  /\ patientAccessRequests[P][i].isApproved
                  /\ ~patientAccessRequests[P][i].isPending

\* a step of requestRecordAccess appends one Pending request to the named
\* patient's list and changes no other request and no grant
C13_AppendsOnePending ==
    lastTx'.fn = "requestRecordAccess" =>
        LET P == lastTx'.args[1]
            n == Len(patientAccessRequests[P])
            new == patientAccessRequests'[P][n + 1]
        IN  /\ Len(patientAccessRequests'[P]) = n + 1
            /\ \A i \in 1..n : patientAccessRequests'[P][i] = patientAccessRequests[P][i]
            /\ new.isPending
            /\ ~new.isApproved
            /\ new.doctorId = doctorAddressToId[lastTx'.sender]
            /\ new.recordId = lastTx'.args[2]
            /\ \A q \in PatientIds \ {P} :
                   patientAccessRequests'[q] = patientAccessRequests[q]
            /\ doctorRecordAccess' = doctorRecordAccess

\* C13: every successful requestRecordAccess appends exactly one new request
\* with status Pending, also when a request for the same patient, doctor and
\* record already exists, and modifies no existing request and no grant.
C13_RequestAppends == [][C13_AppendsOnePending]_vars

\* a second request for the same patient, doctor and record was filed after
\* the first had been approved
C13_Witness ==
    /\ lastTx.fn = "requestRecordAccess"
    /\ LET rs == patientAccessRequests[lastTx.args[1]]
       IN  /\ Len(rs) = 2
           /\ rs[1].doctorId = rs[2].doctorId
           /\ rs[1].recordId = rs[2].recordId
           /\ rs[1].isApproved
           /\ rs[2].isPending

\* the conditions under which requestRecordAccess goes through
C14_MayRequest(a, p, r) ==
    /\ registeredDoctors[a]
    /\ doctorAddressToId[a] > 0
    /\ doctorApproved[doctorAddressToId[a]]
    /\ r < Len(patientMedicalRecords[p])

\* a step that files a request or moves the request counter is a
\* requestRecordAccess whose caller and record met the conditions before it
C14_Step ==
    (accessRequestCounter' # accessRequestCounter
     \/ \E p \in PatientIds :
            Len(patientAccessRequests'[p]) # Len(patientAccessRequests[p])) =>
        /\ lastTx'.fn = "requestRecordAccess"
        /\ C14_MayRequest(lastTx'.sender, lastTx'.args[1], lastTx'.args[2])

\* a call that does not meet the conditions reverts (and so changes nothing)
C14_Reverts ==
    \A a \in Addresses, p \in PatientIds, r \in 0..MaxRecords :
        requestRecordAccessRevert(a, p, r) = "" <=> C14_MayRequest(a, p, r)

\* C14: requestRecordAccess succeeds only when the caller is a registered,
\* admin-approved doctor and the record index exists for the named patient;
\* otherwise it reverts and no request, counter, grant or notification changes.
C14_RequestGuard == []C14_Reverts /\ [][C14_Step]_vars

\* a request went through while another registered doctor is still unapproved
C14_Witness ==
    /\ lastTx.fn = "requestRecordAccess"
    /\ accessRequestCounter = 1
    /\ \E a \in Addresses :
           /\ doctorAddressToId[a] > 0
           /\ ~doctorApproved[doctorAddressToId[a]]
           /\ requestRecordAccessRevert(a, lastTx.args[1], lastTx.args[2])
                  = "Doctor not approved"

----------------------------------------------------------------------------
(* Claims about the ledger grant and the stored package *)

\* the doctors the ledger records a grant for, by address
Granted(address) ==
    /\ doctorAddressToId[address] > 0
    /\ \E p \in 1..MaxPatients : doctorRecordAccess[p][doctorAddressToId[address]]

\* the package at hand was encrypted under a policy the doctor's attributes
\* do not satisfy
Unlisted(address) ==
    /\ pkg.module = "cpabe"
    /\ ~evaluatePolicy(src.policy, doctorAttributes(address))

\* C15 (state part): whenever the ledger records a grant for a doctor whose
\* attributes do not satisfy the policy the package was encrypted under, a
\* decrypt of the package with the doctor's attributes fails with the
\* access-denied error, whatever a wrong key would yield.
C15_GrantedStillDenied ==
    \A a \in Addresses : (Granted(a) /\ Unlisted(a)) =>
        /\ \A g1, g2 \in Garbage :
               LET r == decryptMedicalRecord(pkg, doctorAttributes(a), g1, g2)
               IN  ~r.ok /\ IsAccessDenied(r.err)
        /\ (Decrypted /\ out.attrs = doctorAttributes(a)) =>
               ~out.result.ok /\ IsAccessDenied(out.result.err)

\* C15 (step part): the step that mines an approveAccessRequest (it is the
\* last transaction and a request changed) leaves the package and every
\* stored record as they were.
C15_ApproveKeepsRecords ==
    (lastTx'.fn = "approveAccessRequest" /\ patientAccessRequests' # patientAccessRequests) =>
        pkg' = pkg /\ patientMedicalRecords' = patientMedicalRecords

----------------------------------------------------------------------------
(* Claims about the evaluators *)

\* a leaf has been evaluated against attributes that lack its attribute
AbsentLeaf ==
    /\ verdict.module = "leaf"
    /\ built.policy.attribute \notin DOMAIN verdict.attrs

\* C16: a leaf whose attribute is absent from the attribute set evaluates to
\* false under both evaluators, whatever its operator, '!==' included.
C16_AbsentAttributeFalse == AbsentLeaf => (~verdict.util /\ ~verdict.cpabe)

\* the value the tree semantics gives a node: AND is true iff every child is,
\* OR iff some child is, a leaf is what checkCondition makes of it
RECURSIVE TreeValue(_, _)
TreeValue(node, attrs) ==
    IF IsComposite(node)
    THEN IF NodeType(node) = "AND"
         THEN \A i \in 1..Len(node.conditions) : TreeValue(node.conditions[i], attrs)
         ELSE \E i \in 1..Len(node.conditions) : TreeValue(node.conditions[i], attrs)
    ELSE checkCondition(node, attrs)

\* C17: for a policy tree nested to any depth checkPolicySatisfaction gives an
\* AND node the conjunction of its children and an OR node their disjunction;
\* an empty OR is false and an empty AND is true.
C17_NestedAndOr ==
    verdict.module = "tree" => verdict.util = TreeValue(built.policy, verdict.attrs)

\* x is one of the items of a list value
Contains(list, x) ==
    IsArray(list) /\ \E i \in 1..ListLength(list) : ListItem(list, i) = x

\* what 'in' and 'includes' are to give for the evaluated leaf
ListLeafValue ==
    LET userValue == Attr(verdict.attrs, built.policy.attribute)
    IN  IF built.policy.operator = "in" THEN Contains(built.policy.value, userValue)
        ELSE Contains(userValue, built.policy.value)

\* C18: under both evaluators an 'in' leaf is true exactly when the condition
\* value is a list containing the attribute's value, and an 'includes' leaf
\* exactly when the attribute's value is a list containing the condition value.
C18_InAndIncludes ==
    (verdict.module = "leaf" /\ built.policy.operator \in {"in", "includes"}) =>
        (verdict.util = ListLeafValue /\ verdict.cpabe = ListLeafValue)

----------------------------------------------------------------------------
(* Claims about getUserAttributes *)

\* getUserAttributes has been called
AttributesTaken == verdict.module # "none" /\ "input" \in DOMAIN verdict

\* the attributes the same module returns for the input written in lowercase
LowercaseTwin ==
    LET i == verdict.input
        speciality == IF i.speciality = Null THEN Null
                      ELSE Str(ToLowerCase(i.speciality[2]))
    IN  IF verdict.module = "util"
        THEN getUserAttributesUtil(ToLowerCase(i.role), i.patientId, i.doctorId, speciality)
        ELSE getUserAttributesCpabe(ToLowerCase(i.role), i.patientId, i.doctorId)

\* C19: getUserAttributes returns the role and the speciality in lowercase
\* whatever case the caller passes; the attribute set and the policy decision
\* are those of the same input written in lowercase.
C19_CaseInsensitive ==
    AttributesTaken =>
        /\ verdict.attrs.role = Str(ToLowerCase(verdict.input.role))
        /\ verdict.input.speciality # Null =>
               Attr(verdict.attrs, "speciality")
                   = Str(ToLowerCase(verdict.input.speciality[2]))
        /\ verdict.attrs = LowercaseTwin
        /\ verdict.sat = Satisfies(verdict.module, built.policy, LowercaseTwin)

----------------------------------------------------------------------------
(* Claims about the record store *)

\* C20 (state part): every stored record sits at the index it was given at
\* upload, under the patient it was uploaded for.
C20_AtOriginalIndex ==
    \A p \in PatientIds : \A i \in 1..Len(patientMedicalRecords[p]) :
        /\ patientMedicalRecords[p][i].id = i - 1
        /\ patientMedicalRecords[p][i].patientId = p

\* C20 (step part): a step keeps every record at its index with its
\* accessPolicy, and a mined deactivateMedicalRecord changes nothing in the
\* store but the isActive flag of the record it names, which becomes false.
C20_RecordsKept ==
    \A p \in PatientIds :
        /\ Len(patientMedicalRecords'[p]) >= Len(patientMedicalRecords[p])
        /\ \A i \in 1..Len(patientMedicalRecords[p]) :
              LET old == patientMedicalRecords[p][i]
                  new == patientMedicalRecords'[p][i]
              IN  /\ new.accessPolicy = old.accessPolicy
                  /\ new.id = old.id
                  /\ lastTx'.fn = "deactivateMedicalRecord" =>
                         /\ Len(patientMedicalRecords'[p]) = Len(patientMedicalRecords[p])
                         /\ new = [old EXCEPT !.isActive =
                                      IF <<p, i - 1>> = lastTx'.args THEN FALSE ELSE @]

\* C20: no operation removes a record or changes the access policy stored
\* with it; after any sequence of uploads, updates and deactivations every
\* record is at its original index with its original accessPolicy, and a
\* deactivation only clears isActive.
C20_RecordsImmutable == []C20_AtOriginalIndex /\ [][C20_RecordsKept]_vars

\* a patient has two records under different policies; a doctor holding a
\* grant has just updated the first (new hash and key), the second is as
\* uploaded
C20_Witness ==
    \E p \in PatientIds :
        /\ Len(patientMedicalRecords[p]) = 2
        /\ patientMedicalRecords[p][1].accessPolicy = "policyB"
        /\ patientMedicalRecords[p][2].accessPolicy = "policyA"
        /\ patientMedicalRecords[p][1].ipfsHash = "Qm2"
        /\ patientMedicalRecords[p][1].encryptedAESKey = "wk2"
        /\ patientMedicalRecords[p][2].ipfsHash = "Qm1"
        /\ lastTx.fn = "updateEncryptedMedicalRecord"

----------------------------------------------------------------------------
(* Claims about updatePatientMedicalHistory *)

\* C21: every entry updatePatientMedicalHistory writes to the ledger with
\* encryption enabled is a serialized encrypted package, never the entry in
\* plain text, also when policy creation or encryption raised an error.
C21_NeverPlaintext ==
    (lastTx.fn = "UPDATE_PATIENT_MEDICAL_HISTORY" /\ src.module = "history" /\ src.encryptFlag) =>
        /\ lastTx.args[2].kind = "package"
        /\ lastTx.args[2].package.module = "util"


----------------------------------------------------------------------------
(* Claims about the screens *)

\* the doctor's record view has sent a record to be decrypted in this step
ViewActs == out' # out /\ ui.screen = "records"

\* C22: the doctor's record view never acts on a grant read before a change
\* of the ledger: whenever the view acts on a record because of the grant it
\* holds (the policy decision it holds being negative), the ledger holds
\* that grant at that moment.
C22_ViewSeesCurrentGrant ==
    [][ViewActs /\ ui.hasAccess = Bool(TRUE) /\ ~ui.canDecrypt
           => hasDoctorAccess(ui.patientId, doctorAddressToId[ui.address])]_vars

\* C23: a read of the ledger that failed is told apart from the ledger's
\* answer "no grant": after a failed read the grant lookup has not handed
\* the screen the value false.
C23_FailedReadIsDistinct ==
    ui.screen = "records" /\ ~ui.readOk => ui.hasAccess # Bool(FALSE)

\* the request screen's confirmation has been mined in this step
ConfirmMined ==
    /\ ui.screen = "requests"
    /\ ui.selectedRequest # 0
    /\ lastTx'.fn \in {"approveAccessRequest", "denyAccessRequest"}
    /\ patientAccessRequests' # patientAccessRequests

\* C28: the request screen resolves exactly the request the patient selected:
\* the index handleConfirm finds in its cached list is, when the transaction
\* executes, the index of the request with the selected id in
\* patientAccessRequests, and that request alone changes, also when requests
\* were appended after the list was loaded.
C28_ConfirmResolvesSelected ==
    [][ConfirmMined =>
           LET list == patientAccessRequests[ui.patientId]
               index == lastTx'.args[1] + 1
           IN  /\ index \in 1..Len(list)
               /\ list[index].id = ui.selectedRequest
               /\ \A p \in PatientIds :
                      \A i \in 1..Len(patientAccessRequests[p]) :
                          patientAccessRequests'[p][i] # patientAccessRequests[p][i]
                              <=> p = ui.patientId /\ i = index]_vars

\* the selected request was approved from a list loaded before a later
\* request was appended
C28_Witness ==
    /\ ui.screen = "requests"
    /\ lastTx.fn = "approveAccessRequest"
    /\ ui.confirmed > 0
    /\ ui.confirmed < Len(patientAccessRequests[ui.patientId])
    /\ patientAccessRequests[ui.patientId][1].isApproved
    /\ patientAccessRequests[ui.patientId][2].isPending

----------------------------------------------------------------------------
(* Claims about the ledger's notifications, grants and request history *)

\* the patient and the doctor a mined request, approval, denial or revoke is
\* between, as addresses of the ledger's maps; the step's transaction is tx
PartiesOf(tx) ==
    CASE tx.fn = "requestRecordAccess" ->
             <<patientIdToAddress[tx.args[1]], doctorIdToAddress[doctorAddressToId[tx.sender]]>>
      [] tx.fn = "revokeAccess" ->
             <<patientIdToAddress[patientAddressToId[tx.sender]], doctorIdToAddress[tx.args[1]]>>
      [] OTHER ->
             LET patientId == patientAddressToId[tx.sender]
                 request == At(patientAccessRequests[patientId], tx.args[1])
             IN  <<patientIdToAddress[patientId], doctorIdToAddress[request.doctorId]>>

\* C24: every mined requestRecordAccess, approveAccessRequest,
\* denyAccessRequest and revokeAccess appends exactly one notification for the
\* patient's address and exactly one for the doctor's address, and nothing
\* else; a reverted call leaves the notifications as they are.
C24_OneNotificationEach ==
    [][lastTx'.fn \in {"requestRecordAccess", "approveAccessRequest",
                       "denyAccessRequest", "revokeAccess"}
           => notifications' = ADD_NOTIFICATION(notifications, PartiesOf(lastTx'))]_vars

\* a request was made, approved and revoked, and patient and doctor hold the
\* notifications of it: registration or approval and these three
C24_Witness ==
    /\ lastTx.fn = "revokeAccess"
    /\ \E p \in PatientIds :
           /\ Len(patientAccessRequests[p]) = 1
           /\ patientAccessRequests[p][1].isApproved
           /\ lastTx.sender = patientIdToAddress[p]
           /\ lastTx.args[1] = patientAccessRequests[p][1].doctorId
           /\ notifications[doctorIdToAddress[lastTx.args[1]]] >= 3

\* the step is a mined upload of a record for patient p
UploadMined(p) ==
    /\ lastTx'.fn = "uploadEncryptedMedicalRecord"
    /\ Len(patientMedicalRecords'[p]) > Len(patientMedicalRecords[p])

\* the step is a mined update of a record of patient p
UpdateMined(p) ==
    /\ lastTx'.fn = "updateEncryptedMedicalRecord"
    /\ patientMedicalRecords'[p] # patientMedicalRecords[p]

\* the grant the ledger holds now for the doctor registered at an address
GrantOf(p, address) == doctorRecordAccess[p][doctorAddressToId[address]]

\* C25: the ledger's writes follow the current grant.  A mined upload for
\* patient p comes from p's own address or from an admin-approved doctor
\* whose grant for p is true at that moment; a mined update comes from a
\* registered doctor whose grant for p is true at that moment; right after a
\* revoke the grant is false, and a grant turns true only in a mined approval
\* of a request of that doctor, so that no write of the doctor is mined in
\* between.
C25_WritesFollowGrant ==
    /\ [](lastTx.fn = "revokeAccess"
              => ~doctorRecordAccess[patientAddressToId[lastTx.sender]][lastTx.args[1]])
    /\ [][\A p \in PatientIds :
              /\ UploadMined(p)
                     => \/ patientIdToAddress[p] = lastTx'.sender
                        \/ /\ doctorApproved[doctorAddressToId[lastTx'.sender]]
                           /\ GrantOf(p, lastTx'.sender)
              /\ UpdateMined(p)
                     => registeredDoctors[lastTx'.sender] /\ GrantOf(p, lastTx'.sender)
              /\ \A d \in DoctorIds :
                     ~doctorRecordAccess[p][d] /\ doctorRecordAccess'[p][d]
                         => /\ lastTx'.fn = "approveAccessRequest"
                            /\ patientAddressToId[lastTx'.sender] = p
                            /\ At(patientAccessRequests[p], lastTx'.args[1]).doctorId = d]_vars

\* a doctor who is not the patient uploaded a record under a grant that has
\* since been revoked
C25_Witness ==
    /\ lastTx.fn = "revokeAccess"
    /\ \E p \in PatientIds :
           /\ lastTx.sender = patientIdToAddress[p]
           /\ Len(patientMedicalRecords[p]) = 2
           /\ patientMedicalRecords[p][2].uploadedBy # patientIdToAddress[p]
           /\ doctorAddressToId[patientMedicalRecords[p][2].uploadedBy] = lastTx.args[1]

\* some request of patient p made by doctor d has the status Approved
ApprovedRequest(p, d) ==
    \E i \in 1..Len(patientAccessRequests[p]) :
        /\ patientAccessRequests[p][i].doctorId = d
        /\ patientAccessRequests[p][i].isApproved
        /\ ~patientAccessRequests[p][i].isPending

\* C26: in every reachable state of the ledger a grant doctorRecordAccess[p][d]
\* is true only if some request of patient p by doctor d is Approved, and a
\* grant is set to true by no operation other than approveAccessRequest.
C26_GrantOnlyByApproval ==
    /\ [](\A p \in DOMAIN doctorRecordAccess :
              \A d \in DOMAIN doctorRecordAccess[p] :
                  doctorRecordAccess[p][d] => p \in PatientIds /\ ApprovedRequest(p, d))
    /\ [][(\E p \in DOMAIN doctorRecordAccess :
               \E d \in DOMAIN doctorRecordAccess[p] :
                   ~doctorRecordAccess[p][d] /\ doctorRecordAccess'[p][d])
              => lastTx'.fn = "approveAccessRequest"]_vars

\* a grant stands on the approval just mined, next to a request of the same
\* patient that was denied
C26_Witness ==
    /\ lastTx.fn = "approveAccessRequest"
    /\ \E p \in PatientIds :
           /\ lastTx.sender = patientIdToAddress[p]
           /\ Len(patientAccessRequests[p]) = 2
           /\ doctorRecordAccess[p][At(patientAccessRequests[p], lastTx.args[1]).doctorId]
           /\ \E i \in 1..2 : /\ ~patientAccessRequests[p][i].isPending
                               /\ ~patientAccessRequests[p][i].isApproved

\* the places of the request history: patient and position
RequestSlots ==
    {<<p, i>> \in (DOMAIN patientAccessRequests) \X (1..MaxRequests) :
        i <= Len(patientAccessRequests[p])}

\* ids are unique, they are the numbers handed out so far, and they grow
\* along every patient's list
C27_UniqueIds ==
    /\ Cardinality(RequestSlots) = accessRequestCounter
    /\ {patientAccessRequests[s[1]][s[2]].id : s \in RequestSlots} = 1..accessRequestCounter
    /\ \A s \in RequestSlots :
           s[2] > 1 => patientAccessRequests[s[1]][s[2] - 1].id < patientAccessRequests[s[1]][s[2]].id

\* a step keeps every request at its place with its id, recordId, doctorId,
\* patientId and reason, changes at most the status of a Pending request,
\* and adds at most one request, at the end of a list, whose id is above all
\* ids so far
C27_HistoryKept ==
    /\ \A s \in RequestSlots :
           LET old == patientAccessRequests[s[1]][s[2]]
               new == patientAccessRequests'[s[1]][s[2]]
           IN  /\ s[2] <= Len(patientAccessRequests'[s[1]])
               /\ new.id = old.id /\ new.recordId = old.recordId
               /\ new.doctorId = old.doctorId /\ new.patientId = old.patientId
               /\ new.reason = old.reason
               /\ ~old.isPending => new = old
    /\ accessRequestCounter' \in {accessRequestCounter, accessRequestCounter + 1}
    /\ \A p \in DOMAIN patientAccessRequests :
           Len(patientAccessRequests'[p]) > Len(patientAccessRequests[p])
               => /\ Len(patientAccessRequests'[p]) = Len(patientAccessRequests[p]) + 1
                  /\ accessRequestCounter' = accessRequestCounter + 1
                  /\ patientAccessRequests'[p][Len(patientAccessRequests'[p])].id
                         = accessRequestCounter'

\* C27: the request history is append-only with unique ids: ids are unique
\* and strictly increasing in order of creation across all patients,
\* accessRequestCounter equals the number of requests ever created, and a
\* request keeps its id, recordId, doctorId, patientId, reason and position;
\* only its status changes, once.
C27_AppendOnlyHistory == []C27_UniqueIds /\ [][C27_HistoryKept]_vars

\* two requests were created, the first has been resolved and the second was
\* created after that
C27_Witness ==
    /\ lastTx.fn = "requestRecordAccess"
    /\ accessRequestCounter = 2
    /\ \E s \in RequestSlots :
           /\ patientAccessRequests[s[1]][s[2]].id = 1
           /\ ~patientAccessRequests[s[1]][s[2]].isPending

\* the Pending requests of the caller of the step's revoke stay as they are
C29_RevokeKeepsPending ==
    lastTx'.fn = "revokeAccess" => patientAccessRequests' = patientAccessRequests

\* a mined approval of a request sets the grant of its doctor, whatever
\* revokes came before
C29_ApprovalGrantsAgain ==
    lastTx'.fn = "approveAccessRequest"
        => LET p == patientAddressToId[lastTx'.sender]
               request == At(patientAccessRequests[p], lastTx'.args[1])
           IN  request.isPending /\ doctorRecordAccess'[p][request.doctorId]

----------------------------------------------------------------------------
(* Claims about the two evaluators together *)

\* C30: checkPolicySatisfaction of utils/encryption.js and evaluatePolicy of
\* the CP-ABE module return the same decision for every policy and attribute
\* set, the policies built by either createMedicalRecordPolicy included.
C30_EvaluatorsAgree ==
    verdict.module \in {"util", "cpabe"} => verdict.util = verdict.cpabe

====
